---- MODULE Spec2Model ----
(***************************************************************************)
(* The orchestration pipeline of the BI-Intelligence backend:              *)
(* MCPBridge.processUserRequest (planning, tool execution, synthesis,      *)
(* conversation context), the ToolManager dispatcher it drives and the     *)
(* pure helpers they use.                                                  *)
(***************************************************************************)
EXTENDS Integers, Sequences, FiniteSets, TLC

(***************************************************************************)
(* Bounds of the model.                                                    *)
(***************************************************************************)
\* longest uploadedFiles list of the heuristic-fallback specification
MaxFiles == 2
\* longest free part of a user message (in tokens) of the parameter specification
MaxMsgLen == 3
\* longest selected_tools / execution_order list a model reply carries
MaxPlanLen == 2
\* most consecutive failing attempts a transport makes before it succeeds
MaxTransientFailures == 2
\* turns of the pipeline specification
MaxTurns == 1
\* turns of the concurrent-requests specification
ConcTurns == 3
\* longest model reply (in tokens) of the reply-parsing specification
MaxReplyLen == 4
\* the calls of QwenClient.generateResponse
MaxQwenCalls == 3
\* turns of the specification of failed turns
FailedTurns == 2
\* turns of the specification of cleared histories
HistoryTurns == 2
\* turns of the conversation-context specification
CtxTurns == 22
\* of which on the second conversation id
CtxSideTurns == 1

(***************************************************************************)
(* Program constants.                                                      *)
(***************************************************************************)
\* mcpBridge.js:449, "Keep only last 20 interactions"
MaxContext == 20
\* mcp.json tool_execution.retry_policy.max_retries
MaxRetries == 2
\* the number of characters generateFallbackResponse shows of a payload
PreviewLength == 200
\* the polls waitForServerReady makes before it gives up
MaxAttempts == 30

(***************************************************************************)
(* Numbers.  A parameter value is a decimal m * 10^-s in normal form (m    *)
(* not divisible by 10 unless s = 0), NaN, a boolean or a string; every    *)
(* value is a record so that any two can be compared.                      *)
(***************************************************************************)
RECURSIVE Normalize(_, _)
Normalize(m, s) ==
  IF s > 0 /\ m % 10 = 0 THEN Normalize(m \div 10, s - 1) ELSE [m |-> m, s |-> s]

Dec(m, s) == Normalize(m, s)
NaN == [nan |-> TRUE]
Bool(b) == [bool |-> b]
Str(x) == [str |-> x]
Null == [null |-> TRUE]

\* a confidence a / b as the fraction it is
Frac(a, b) == [num |-> a, den |-> b]

(***************************************************************************)
(* tools.json: the catalogue.  input_subtypes is, for each input type      *)
(* "x/sub" of the descriptor, the part after the slash, which is what      *)
(* filterFilesForTool searches the file's type for.                        *)
(***************************************************************************)
McpPdfTools ==
  {"extract_figures_from_pdf", "extract_tables_from_pdf", "extract_text_from_pdf",
   "extract_formulas_from_pdf", "get_pdf_document_stats", "analyze_pdf_layout",
   "extract_all_from_pdf"}

DockerTools ==
  {"pdf_analyzer", "excel_processor", "image_analyzer", "text_processor",
   "data_visualizer", "video_processor", "audio_processor"}

CatalogueIds == McpPdfTools \cup DockerTools

DockerInputSubtypes(id) ==
  CASE id = "pdf_analyzer" -> {"pdf"}
    [] id = "excel_processor" ->
         {"vnd.openxmlformats-officedocument.spreadsheetml.sheet", "vnd.ms-excel"}
    [] id = "image_analyzer" -> {"jpeg", "png", "gif", "bmp"}
    [] id = "text_processor" ->
         {"plain", "msword", "vnd.openxmlformats-officedocument.wordprocessingml.document"}
    [] id = "data_visualizer" -> {"csv", "json"}
    [] id = "video_processor" -> {"mp4", "avi", "mov", "wmv"}
    [] id = "audio_processor" -> {"mp3", "wav", "flac", "aac"}

DockerParameters(id) ==
  CASE id = "pdf_analyzer" ->
         [extract_images |-> Bool(FALSE), extract_tables |-> Bool(TRUE),
          language |-> Str("auto")]
    [] id = "excel_processor" ->
         [sheet_name |-> Null, include_charts |-> Bool(TRUE),
          data_summary |-> Bool(TRUE)]
    [] id = "image_analyzer" ->
         [detect_text |-> Bool(TRUE), detect_objects |-> Bool(TRUE),
          extract_metadata |-> Bool(TRUE)]
    [] id = "text_processor" ->
         [summarize |-> Bool(TRUE), extract_keywords |-> Bool(TRUE),
          sentiment_analysis |-> Bool(FALSE)]
    [] id = "data_visualizer" ->
         [chart_type |-> Str("auto"), include_statistics |-> Bool(TRUE),
          color_scheme |-> Str("default")]
    [] id = "video_processor" ->
         [extract_frames |-> Bool(TRUE), frame_interval |-> Dec(5, 0),
          extract_audio |-> Bool(FALSE)]
    [] id = "audio_processor" ->
         [transcribe |-> Bool(TRUE), language |-> Str("auto"),
          include_timestamps |-> Bool(TRUE)]

\* the descriptor of a catalogue id: its source, its input subtypes and the
\* default of each of its parameters
ToolDescriptor(id) ==
  IF id \in McpPdfTools
    THEN [id |-> id, source |-> "mcp", server |-> "document_analysis",
          input_subtypes |-> {"pdf"},
          parameters |-> [confidence |-> Dec(2, 1)]]
    ELSE [id |-> id, source |-> "docker", server |-> "none",
          input_subtypes |-> DockerInputSubtypes(id),
          parameters |-> DockerParameters(id)]

(***************************************************************************)
(* File types.  String.prototype.includes over the MIME types of the       *)
(* model: Substrings(type) is the set of the searched-for strings (the     *)
(* keywords of fallbackToolSelection and the input subtypes of the         *)
(* catalogue) that occur in the type.                                      *)
(***************************************************************************)
Substrings(type) ==
  CASE type = "application/pdf" -> {"pdf"}
    [] type = "application/vnd.ms-excel" -> {"excel", "vnd.ms-excel"}
    [] type = "application/vnd.openxmlformats-officedocument.spreadsheetml.sheet" ->
         {"spreadsheet", "vnd.openxmlformats-officedocument.spreadsheetml.sheet"}
    [] type = "image/png" -> {"image", "png"}
    [] type = "text/plain" -> {"text", "plain"}
    [] type = "application/msword" -> {"word", "msword"}
    [] type = "video/mp4" -> {"video", "mp4"}
    [] type = "audio/wav" -> {"audio", "wav"}
    [] type = "application/json" -> {"json"}
    [] type = "image/x-pdf-preview" -> {"pdf", "image"}
    [] type = "text/x-audio-video-log" -> {"text", "audio", "video"}

includes(type, needle) == needle \in Substrings(type)

FileTypes ==
  {"application/pdf", "application/vnd.ms-excel",
   "application/vnd.openxmlformats-officedocument.spreadsheetml.sheet",
   "image/png", "text/plain", "application/msword", "video/mp4", "audio/wav",
   "application/json", "image/x-pdf-preview", "text/x-audio-video-log"}

\* a FileRecord is its type; the name plays no part in the pipeline's decisions
SeqsUpTo(S, n) == UNION {[1..k -> S] : k \in 0..n}

RECURSIVE Dedup(_)
\* [...new Set(list)]: first occurrences, in order
Dedup(list) ==
  IF list = <<>> THEN <<>>
  ELSE LET init == Dedup(SubSeq(list, 1, Len(list) - 1))
           last == list[Len(list)]
       IN IF \E i \in 1..Len(init) : init[i] = last THEN init ELSE Append(init, last)

RECURSIVE Filter(_, _)
\* Array.prototype.filter with the predicate "is a member of keep"
Filter(list, keep) ==
  IF list = <<>> THEN <<>>
  ELSE LET rest == Filter(Tail(list), keep)
       IN IF Head(list) \in keep THEN <<Head(list)>> \o rest ELSE rest

Range(list) == {list[i] : i \in 1..Len(list)}


(***************************************************************************)
(* User messages.  A message is a sequence of tokens: the word             *)
(* "confidence" (in any case, the pattern is case-insensitive), the        *)
(* separators ":" and " ", the digits "0" and "5", the dot, and "x" for    *)
(* any other text.                                                         *)
(***************************************************************************)
MsgTokens == {"confidence", ":", " ", "0", "5", ".", "x"}
DigitValue(c) == IF c = "5" THEN 5 ELSE 0

RECURSIVE SkipWhile(_, _, _)
\* the first index >= j of msg whose token is not in the class, Len(msg)+1 if none
SkipWhile(msg, j, class) ==
  IF j <= Len(msg) /\ msg[j] \in class THEN SkipWhile(msg, j + 1, class) ELSE j

Separators == {":", " "}
Numerics == {"0", "5", "."}
Digits == {"0", "5"}

\* /confidence[:\s]*([0-9.]+)/i matches at position i of msg
MatchesAt(msg, i) ==
  /\ msg[i] = "confidence"
  /\ LET j == SkipWhile(msg, i + 1, Separators)
     IN j <= Len(msg) /\ msg[j] \in Numerics

\* userMessage.match(/confidence[:\s]*([0-9.]+)/i): the leftmost match and its
\* capture group, the longest run of digits and dots after the separators
confidenceMatch(msg) ==
  IF \E i \in 1..Len(msg) : MatchesAt(msg, i)
    THEN LET i == CHOOSE k \in 1..Len(msg) :
                    MatchesAt(msg, k) /\ \A l \in 1..(k - 1) : ~MatchesAt(msg, l)
             j == SkipWhile(msg, i + 1, Separators)
             e == SkipWhile(msg, j, Numerics)
         IN [matched |-> TRUE, capture |-> SubSeq(msg, j, e - 1)]
    ELSE [matched |-> FALSE, capture |-> <<>>]

RECURSIVE ToInt(_)
ToInt(digits) ==
  IF digits = <<>> THEN 0
  ELSE 10 * ToInt(SubSeq(digits, 1, Len(digits) - 1)) + DigitValue(digits[Len(digits)])

\* parseFloat of a string of digits and dots: the longest prefix that is a
\* decimal literal (digits, then optionally a dot and digits), NaN when that
\* prefix holds no digit
parseFloat(text) ==
  LET i == SkipWhile(text, 1, Digits)
      intPart == SubSeq(text, 1, i - 1)
      hasDot == i <= Len(text) /\ text[i] = "."
      f == IF hasDot THEN SkipWhile(text, i + 1, Digits) ELSE i
      fracPart == IF hasDot THEN SubSeq(text, i + 1, f - 1) ELSE <<>>
  IN IF intPart = <<>> /\ fracPart = <<>> THEN NaN
     ELSE Dec(ToInt(intPart \o fracPart), Len(fracPart))

\* the spec's scenario message: "confidence: 0.5 please analyze this"
ScenarioMessage == <<"confidence", ":", " ", "0", ".", "5", " ", "x">>
\* "extract the tables with high confidence."
SentenceMessage == <<"x", " ", "confidence", ".">>
PlainMessage == <<"x">>

(***************************************************************************)
(* Plans.  execution_order is absent, a list, or a value that is not a     *)
(* list (the model's JSON is not validated).                               *)
(***************************************************************************)
Absent == [kind |-> "absent", list |-> <<>>]
Malformed == [kind |-> "malformed", list |-> <<>>]
List(l) == [kind |-> "list", list |-> l]

NoParameters == [t \in {} |-> <<>>]
FallbackReasoning == "Automatic tool selection based on file types"
NoToolsReasoning == "No tools are currently available"

\* the one tool fallbackToolSelection pushes for a file, if any
FallbackToolFor(type) ==
  IF includes(type, "pdf") THEN <<"extract_all_from_pdf">>
  ELSE IF includes(type, "excel") \/ includes(type, "spreadsheet") THEN <<"excel_processor">>
  ELSE IF includes(type, "image") THEN <<"image_analyzer">>
  ELSE IF includes(type, "text") \/ includes(type, "word") THEN <<"text_processor">>
  ELSE IF includes(type, "video") THEN <<"video_processor">>
  ELSE IF includes(type, "audio") THEN <<"audio_processor">>
  ELSE <<>>

RECURSIVE FallbackTools(_)
FallbackTools(uploadedFiles) ==
  IF uploadedFiles = <<>> THEN <<>>
  ELSE FallbackToolFor(Head(uploadedFiles)) \o FallbackTools(Tail(uploadedFiles))

\* faulty variant: the tools are not de-duplicated
fallbackToolSelection_noDedup(uploadedFiles) ==
  [selected_tools |-> FallbackTools(uploadedFiles),
   reasoning |-> FallbackReasoning,
   execution_order |-> List(FallbackTools(uploadedFiles)),
   tool_parameters |-> NoParameters]

fallbackToolSelection(uploadedFiles) ==
  [selected_tools |-> Dedup(FallbackTools(uploadedFiles)),
   reasoning |-> FallbackReasoning,
   execution_order |-> List(Dedup(FallbackTools(uploadedFiles))),
   tool_parameters |-> NoParameters]

\* selectToolsWithClaude's answer when no tool is available
EmptySelection ==
  [selected_tools |-> <<>>, reasoning |-> NoToolsReasoning,
   execution_order |-> List(<<>>), tool_parameters |-> NoParameters]

NoPlan ==
  [selected_tools |-> <<>>, reasoning |-> "none",
   execution_order |-> Absent, tool_parameters |-> NoParameters]

\* toolSelection.selected_tools.filter(id => activeTools.some(t => t.id === id))
ValidateSelection(toolSelection, activeTools) ==
  [toolSelection EXCEPT !.selected_tools = Filter(@, activeTools)]

\* toolSelection.execution_order || toolSelection.selected_tools: an empty
\* list is truthy, only an absent order falls back to selected_tools
executionOrder(toolSelection) ==
  IF toolSelection.execution_order.kind = "absent"
    THEN List(toolSelection.selected_tools)
    ELSE toolSelection.execution_order

(***************************************************************************)
(* Model replies as text.  A reply is a string of tokens: an opening       *)
(* brace, a closing brace, "v" for the members of a plan (selected_tools   *)
(* and the rest) and "p" for a word of prose.  A string without prose     *)
(* whose first brace closes at its end is a JSON object.                   *)
(***************************************************************************)
ReplyTokens == {"{", "}", "v", "p"}

RECURSIVE BalancedEnd(_, _, _)
\* where the brace open at depth `depth` before position j closes: 0 if nowhere
BalancedEnd(text, j, depth) ==
  IF j > Len(text) THEN 0
  ELSE IF text[j] = "{" THEN BalancedEnd(text, j + 1, depth + 1)
  ELSE IF text[j] = "}"
    THEN IF depth = 1 THEN j ELSE BalancedEnd(text, j + 1, depth - 1)
  ELSE BalancedEnd(text, j + 1, depth)

Positions(text, token) == {i \in 1..Len(text) : text[i] = token}
First(positions) == CHOOSE i \in positions : \A k \in positions : i <= k
Last(positions) == CHOOSE i \in positions : \A k \in positions : k <= i

\* JSON.parse(text): the object, or a SyntaxError
JSONparse(text) ==
  IF /\ text # <<>>
     /\ text[1] = "{"
     /\ BalancedEnd(text, 2, 1) = Len(text)
     /\ Positions(text, "p") = {}
    THEN [ok |-> TRUE, object |-> text]
    ELSE [ok |-> FALSE, object |-> <<>>]

\* text.match(/\{[\s\S]*\}/): greedy, from the first opening brace to the
\* last closing brace
braceMatch(text) ==
  LET opens == Positions(text, "{")
      closes == Positions(text, "}")
  IN IF opens # {} /\ closes # {} /\ First(opens) < Last(closes)
       THEN [matched |-> TRUE, span |-> SubSeq(text, First(opens), Last(closes))]
       ELSE [matched |-> FALSE, span |-> <<>>]

\* ClaudeClient.generateStructuredResponse on the model's text
generateStructuredResponse(response) ==
  IF JSONparse(response).ok THEN JSONparse(response)
  ELSE IF braceMatch(response).matched
    THEN JSONparse(braceMatch(response).span)
    ELSE [ok |-> FALSE, object |-> <<>>]

\* selectTools' parse of the model's text (lines 200-213)
parseToolSelection(modelResponse) ==
  IF braceMatch(modelResponse).matched
    THEN JSONparse(braceMatch(modelResponse).span)
    ELSE JSONparse(modelResponse)

\* the object has plan members of its own (not only those of a nested object)
HasPlanMembers(object) ==
  \E i \in Positions(object, "v") :
    Cardinality({k \in 1..i : object[k] = "{"})
      - Cardinality({k \in 1..i : object[k] = "}"}) = 1

\* the plan an object with plan members stands for
TextPlan ==
  [selected_tools |-> <<"extract_all_from_pdf">>, reasoning |-> "model",
   execution_order |-> Absent, tool_parameters |-> NoParameters]

\* what the planning call yields for a reply text on the path the turn took:
\* an object without selected_tools throws at the filter of lines 163 and 216
ReplyOfText(claudePath, text) ==
  LET parsed == IF claudePath THEN generateStructuredResponse(text)
                ELSE parseToolSelection(text)
  IN IF ~parsed.ok THEN [kind |-> "unparseable", plan |-> NoPlan]
     ELSE IF HasPlanMembers(parsed.object) THEN [kind |-> "plan", plan |-> TextPlan]
     ELSE [kind |-> "throws", plan |-> NoPlan]

(***************************************************************************)
(* Results and responses.                                                  *)
(***************************************************************************)
\* result is the payload as JSON.stringify writes it, a string of characters
Succeeded(toolId, result) ==
  [toolId |-> toolId, success |-> TRUE, error |-> "none", result |-> result]
Failed(toolId, message) ==
  [toolId |-> toolId, success |-> FALSE, error |-> message, result |-> <<>>]

\* a payload of n characters, the i-th being the digit i mod 10
Payload(n) == [i \in 1..n |-> i % 10]

\* String.prototype.substring(start, end) for 0 <= start <= end
substring(text, start, end) ==
  SubSeq(text, start + 1, IF end < Len(text) THEN end ELSE Len(text))

RECURSIVE Select(_, _)
\* toolResults.filter(r => r.success = flag)
Select(toolResults, flag) ==
  IF toolResults = <<>> THEN <<>>
  ELSE LET rest == Select(Tail(toolResults), flag)
       IN IF Head(toolResults).success = flag THEN <<Head(toolResults)>> \o rest ELSE rest

Pairs(results) == [i \in 1..Len(results) |-> <<results[i].toolId, results[i].error>>]
Ids(results) == [i \in 1..Len(results) |-> results[i].toolId]

\* a response is a text: which text it is, the "toolId: error" pairs or the
\* tool ids it lists, and the model that wrote it, if one did
Text(kind, items, note, by) == [kind |-> kind, items |-> items, note |-> note, by |-> by]

\* synthesizeResponse's two deterministic apologies
ErrorsApology(toolResults) ==
  Text("errors_apology", Pairs(Select(toolResults, FALSE)), <<>>, "none")
NoToolsApology == Text("no_tools_apology", <<>>, <<>>, "none")
ModelText(model) == Text("model_text", <<>>, <<>>, model)

\* one bullet of generateFallbackResponse: the tool id, the preview of its
\* payload, and whether "..." follows it
Bullet(toolId, preview) ==
  [toolId |-> toolId, preview |-> preview, ellipsis |-> Len(preview) = PreviewLength]

\* faulty variant: the payloads are rendered whole
generateFallbackResponse_wholePayload(toolResults) ==
  LET successfulResults == Select(toolResults, TRUE)
      failedResults == Select(toolResults, FALSE)
  IN IF successfulResults = <<>>
       THEN IF failedResults # <<>>
              THEN Text("fallback_errors", Pairs(failedResults), <<>>, "none")
              ELSE Text("fallback_generic", <<>>, <<>>, "none")
       ELSE Text("fallback_rendering",
                 [i \in 1..Len(successfulResults) |->
                    Bullet(successfulResults[i].toolId, successfulResults[i].result)],
                 Ids(failedResults), "none")

generateFallbackResponse(toolResults) ==
  LET successfulResults == Select(toolResults, TRUE)
      failedResults == Select(toolResults, FALSE)
  IN IF successfulResults = <<>>
       THEN IF failedResults # <<>>
              THEN Text("fallback_errors", Pairs(failedResults), <<>>, "none")
              ELSE Text("fallback_generic", <<>>, <<>>, "none")
       ELSE Text("fallback_rendering",
                 [i \in 1..Len(successfulResults) |->
                    Bullet(successfulResults[i].toolId,
                           substring(successfulResults[i].result, 0, PreviewLength))],
                 Ids(failedResults), "none")

TurnErrorText(message) == Text("turn_error", <<message>>, <<>>, "none")

\* faulty variant: the failed results are counted instead of the succeeded
calculateConfidence_countsFailures(toolResults) ==
  IF Len(toolResults) = 0 THEN Frac(1, 2)
  ELSE Frac(Len(Select(toolResults, FALSE)), Len(toolResults))

\* faulty variant: no results give the ratio of an empty list, taken as 0
calculateConfidence_zeroWithoutTools(toolResults) ==
  IF Len(toolResults) = 0 THEN Frac(0, 1)
  ELSE Frac(Len(Select(toolResults, TRUE)), Len(toolResults))

calculateConfidence(toolResults) ==
  IF Len(toolResults) = 0 THEN Frac(1, 2)
  ELSE Frac(Len(Select(toolResults, TRUE)), Len(toolResults))

(***************************************************************************)
(* Conversation context.  The Map activeConversations is a function whose  *)
(* domain is the set of its keys.                                          *)
(***************************************************************************)
\* faulty variant: the splice removes from the end, so the newest turns go
updateConversationContext_dropsNewest(conversations, conversationId, interaction) ==
  LET context == IF conversationId \in DOMAIN conversations
                   THEN conversations[conversationId] ELSE <<>>
      pushed == Append(context, interaction)
      kept == IF Len(pushed) > MaxContext THEN SubSeq(pushed, 1, MaxContext) ELSE pushed
  IN (conversationId :> kept) @@ conversations

updateConversationContext(conversations, conversationId, interaction) ==
  LET context == IF conversationId \in DOMAIN conversations
                   THEN conversations[conversationId] ELSE <<>>
      pushed == Append(context, interaction)
      kept == IF Len(pushed) > MaxContext
                THEN SubSeq(pushed, Len(pushed) - MaxContext + 1, Len(pushed))
                ELSE pushed
  IN (conversationId :> kept) @@ conversations


(***************************************************************************)
(* State.                                                                  *)
(***************************************************************************)
VARIABLES
  isInitialized,        \* MCPBridge.isInitialized
  currentModel,         \* MCPBridge.currentModel, by its id ("null" before initialize)
  activeConversations,  \* MCPBridge.activeConversations
  availableTools,       \* ToolManager.availableTools, by id
  mcpClients,           \* ToolManager.mcpClients, the registered server names
  mcpConnected,         \* MCPClient.isConnected of the document_analysis client
  dockerEndpoint,       \* ToolManager.dockerEndpoint
  dockerHealthy,        \* what checkDockerHealth returned to initialize
  mcpClient,            \* the MCPClient of document_analysis, but for isConnected
  qwen,                 \* the QwenClient, its worker process and its calls
  history,              \* the conversations map of routes/chat.js, by conversation id
  now,                  \* the clock new Date() reads: one tick per returned turn
  turn                  \* the calls of processUserRequest in flight, by request slot

vars ==
  <<isInitialized, currentModel, activeConversations, availableTools, mcpClients,
    mcpConnected, dockerEndpoint, dockerHealthy, mcpClient, qwen, history, now, turn>>

Slots == {"r1", "r2"}
ConversationIds == {"c1", "c2"}
ModelIds == {"claude-3-sonnet", "gpt-4o"}

\* only the Claude client has orchestrateTools and synthesizeResponse
IsClaude(model) == model = "claude-3-sonnet"

NoInvocation == [toolId |-> "none", files |-> <<>>, parameters |-> NoParameters]

IdleFrame ==
  [pc |-> "idle", conversationId |-> "none", userMessage |-> <<>>,
   uploadedFiles |-> <<>>, contextLive |-> FALSE, activeTools |-> {},
   toolSelection |-> NoPlan, cursor |-> 0, toolResults |-> <<>>,
   invocation |-> NoInvocation, transientFailures |-> 0, modelCalls |-> 0,
   calledModel |-> "none", synthPath |-> "none", modelResponse |-> <<>>,
   specificError |-> "none", attempts |-> <<>>, result |-> <<>>]

(***************************************************************************)
(* MCPClient.initialize.  pc is where initialize stands, attempt the       *)
(* number of polls waitForServerReady has made, serverProcess the child    *)
(* process of startServerProcess, probedHealthy whether a call of          *)
(* checkServerHealth has returned true.                                    *)
(***************************************************************************)
NewClient ==
  [pc |-> "new", attempt |-> 0, serverProcess |-> "null", isInitialized |-> FALSE,
   probedHealthy |-> FALSE]

\* lines 24-32, and 138 with 41-46: a probe was healthy and initialize returns true
ConnectedClient(client) ==
  [client EXCEPT !.pc = "ready", !.isInitialized = TRUE, !.probedHealthy = TRUE]

\* the client whose server was launched and answered none of the polls
NeverReadyClient ==
  [pc |-> "failed", attempt |-> MaxAttempts, serverProcess |-> "running",
   isInitialized |-> FALSE, probedHealthy |-> FALSE]

\* faulty variant: the last poll counts as healthy whatever it returned
waitForServerReady_trustsLastPoll(client, isReady) ==
  LET polled == [client EXCEPT !.attempt = @ + 1]
  IN IF isReady \/ polled.attempt >= MaxAttempts
       THEN [client |-> [polled EXCEPT !.pc = "ready", !.isInitialized = TRUE,
                                       !.probedHealthy = isReady \/ @],
             connects |-> TRUE]
       ELSE [client |-> polled, connects |-> FALSE]

\* one pass of the loop of waitForServerReady (lines 133-151) with what
\* checkServerHealth returned: the client after it, and whether isConnected
\* is set
waitForServerReady(client, isReady) ==
  LET polled == [client EXCEPT !.attempt = @ + 1]
  IN IF isReady THEN [client |-> ConnectedClient(polled), connects |-> TRUE]
     ELSE IF polled.attempt >= MaxAttempts
       THEN [client |-> [polled EXCEPT !.pc = "failed", !.isInitialized = FALSE],
             connects |-> FALSE]
     ELSE [client |-> polled, connects |-> FALSE]

(***************************************************************************)
(* QwenClient.  A call of generateResponse is known by its number, which   *)
(* is also the number of the request it writes to the worker.  listeners   *)
(* are the calls whose responseHandler is attached to the worker's stdout, *)
(* timers the calls whose timeout is armed, stdin the requests the worker  *)
(* has not answered, spawns the number of worker processes started.        *)
(***************************************************************************)
QwenCalls == 1..MaxQwenCalls

NoCall == [state |-> "none", reply |-> 0, error |-> "none"]

NewQwenClient ==
  [isInitialized |-> FALSE, pythonProcess |-> "null", spawns |-> 0,
   listeners |-> {}, timers |-> {}, stdin |-> <<>>,
   calls |-> [c \in QwenCalls |-> NoCall]]

\* initialize with startInferenceServer (lines 488-550)
startInferenceServer(q) ==
  [q EXCEPT !.isInitialized = TRUE, !.pythonProcess = "running", !.spawns = @ + 1]

\* generateResponse up to the promise it returns (lines 664-731)
generateResponse(q, c) ==
  IF ~q.isInitialized \/ q.pythonProcess = "null"
    THEN [q EXCEPT !.calls[c] = [state |-> "rejected", reply |-> 0,
                                 error |-> "Qwen client not initialized"]]
    ELSE [q EXCEPT !.calls[c] = [state |-> "pending", reply |-> 0, error |-> "none"],
                   !.timers = @ \cup {c},
                   !.listeners = @ \cup {c},
                   !.stdin = Append(@, c)]

\* the responseHandler of call c receives a line the worker printed in
\* answer to request n (lines 676-704), and the wrapped resolve or reject
\* clears the timeout (lines 719-729)
responseHandler(q, c, n, success) ==
  [q EXCEPT !.listeners = @ \ {c},
            !.timers = @ \ {c},
            !.calls[c] = IF success
                           THEN [state |-> "resolved", reply |-> n, error |-> "none"]
                           ELSE [state |-> "rejected", reply |-> n, error |-> "worker"]]

RECURSIVE emit(_, _, _, _)
\* stdout emits 'data': every handler attached at that moment is called
emit(q, handlers, n, success) ==
  IF handlers = {} THEN q
  ELSE LET c == CHOOSE x \in handlers : TRUE
       IN emit(responseHandler(q, c, n, success), handlers \ {c}, n, success)

\* the worker answers the oldest request on its stdin
workerReplies(q, success) ==
  emit([q EXCEPT !.stdin = Tail(@)], q.listeners, Head(q.stdin), success)

\* faulty variant: the timeout rejects the call and leaves its listener
timeoutFires_keepsListener(q, c) ==
  [q EXCEPT !.timers = @ \ {c},
            !.calls[c] = [state |-> "rejected", reply |-> 0,
                          error |-> "Qwen response timeout"]]

\* the timeout of call c fires (lines 707-710)
timeoutFires(q, c) ==
  [q EXCEPT !.listeners = @ \ {c},
            !.timers = @ \ {c},
            !.calls[c] = [state |-> "rejected", reply |-> 0,
                          error |-> "Qwen response timeout"]]

(***************************************************************************)
(* ToolManager.                                                            *)
(***************************************************************************)
\* getToolConfig(toolId) finds a descriptor
hasToolConfig(toolId) == toolId \in availableTools

isToolAvailable(toolId, connected) ==
  IF ToolDescriptor(toolId).source = "mcp"
    THEN ToolDescriptor(toolId).server \in mcpClients /\ connected
    ELSE dockerEndpoint # "null"

\* getAvailableTools().filter(tool => tool.available), by id
activeTools == {id \in availableTools : isToolAvailable(id, mcpConnected)}

\* why toolManager.executeTool rejects the call before it reaches a transport,
\* "none" when it does reach one
DispatchRefusal(toolId, connected) ==
  IF ~hasToolConfig(toolId) THEN "Tool not found"
  ELSE IF ToolDescriptor(toolId).source = "mcp"
    THEN IF ToolDescriptor(toolId).server \notin mcpClients THEN "MCP client not available"
         ELSE IF ~connected THEN "MCP server is not connected"
         ELSE "none"
    ELSE IF dockerEndpoint = "null" THEN "Docker endpoint not configured" ELSE "none"

(***************************************************************************)
(* MCPBridge: the pieces of executeTools.                                  *)
(***************************************************************************)
RECURSIVE FilesMatching(_, _)
FilesMatching(uploadedFiles, subtypes) ==
  IF uploadedFiles = <<>> THEN <<>>
  ELSE LET rest == FilesMatching(Tail(uploadedFiles), subtypes)
       IN IF \E sub \in subtypes : includes(Head(uploadedFiles), sub)
            THEN <<Head(uploadedFiles)>> \o rest ELSE rest

filterFilesForTool(toolId, uploadedFiles) ==
  IF ~hasToolConfig(toolId) THEN uploadedFiles
  ELSE FilesMatching(uploadedFiles, ToolDescriptor(toolId).input_subtypes)

\* Object.assign(target, source)
Assign(target, source) == source @@ target

getToolParameters(toolId, userMessage, toolSelection) ==
  LET defaults == IF hasToolConfig(toolId)
                    THEN ToolDescriptor(toolId).parameters ELSE NoParameters
      planned == IF toolId \in DOMAIN toolSelection.tool_parameters
                   THEN Assign(defaults, toolSelection.tool_parameters[toolId])
                   ELSE defaults
      match == confidenceMatch(userMessage)
  IN IF match.matched
       THEN Assign(planned, [confidence |-> parseFloat(match.capture)])
       ELSE planned

BuildInvocation(f, toolId) ==
  [toolId |-> toolId,
   files |-> filterFilesForTool(toolId, f.uploadedFiles),
   parameters |-> getToolParameters(toolId, f.userMessage, f.toolSelection)]

(***************************************************************************)
(* MCPClient: the parameters of a call to the capability server.           *)
(***************************************************************************)
\* the declared range of the confidence parameter of a PDF tool
ConfidenceRange(toolId) == [min |-> Dec(1, 1), max |-> Dec(9, 1)]

\* parameters.files.find(f => f.type === 'application/pdf'), by position;
\* 0 when no file has that type
RECURSIVE FindPdf(_, _)
FindPdf(files, i) ==
  IF i > Len(files) THEN 0
  ELSE IF files[i] = "application/pdf" THEN i
  ELSE FindPdf(files, i + 1)

convertParametersForMCP(invocation) ==
  [pdf_path |-> FindPdf(invocation.files, 1),
   confidence |-> IF "confidence" \in DOMAIN invocation.parameters
                    THEN invocation.parameters.confidence
                    ELSE Dec(2, 1)]

\* if (value), for a number, neither 0 nor NaN
Truthy(value) == value # NaN /\ value # Dec(0, 0)

\* the fields of the multipart form posted to the tool's own endpoint
SpecificForm(mcpParams) ==
  (IF mcpParams.pdf_path # 0 THEN [file |-> mcpParams.pdf_path] ELSE NoParameters)
  @@ (IF Truthy(mcpParams.confidence)
        THEN [confidence |-> mcpParams.confidence] ELSE NoParameters)

(***************************************************************************)
(* MCPBridge.processUserRequest, in steps that each run from one network   *)
(* await to the next.  A step yields the frame it leaves, the              *)
(* conversations map and whether the turn returned in it.                  *)
(***************************************************************************)
Step(f, conversations, completed) ==
  [frame |-> f, conversations |-> conversations, completed |-> completed]

\* the context the turn holds (line 80): the array stored for its
\* conversation when there was one at the start of the turn, which
\* updateConversationContext changes in place, or else an empty array of its own
ContextOf(f, conversations) ==
  IF f.contextLive THEN conversations[f.conversationId] ELSE <<>>

\* the interaction a completed turn stores (lines 106-112), without its
\* toolResults and response
Interaction(f) ==
  [userMessage |-> f.userMessage, toolsUsed |-> f.toolSelection.selected_tools,
   timestamp |-> now]

\* faulty variant: the turn writes back the context it read when it started,
\* a fresh array if the conversation had none then
Complete_writesBackItsOwnContext(f, response, conversations) ==
  Step([f EXCEPT !.pc = "returned",
                 !.result = [response |-> response,
                             toolsUsed |-> f.toolSelection.selected_tools,
                             confidence |-> calculateConfidence(f.toolResults),
                             conversationId |-> f.conversationId]],
       IF f.contextLive
         THEN updateConversationContext(conversations, f.conversationId, Interaction(f))
         ELSE (f.conversationId :> <<Interaction(f)>>) @@ conversations,
       TRUE)

\* faulty variant: the turn returns without recording itself
Complete_returnsWithoutRecording(f, response, conversations) ==
  Step([f EXCEPT !.pc = "returned",
                 !.result = [response |-> response,
                             toolsUsed |-> f.toolSelection.selected_tools,
                             confidence |-> calculateConfidence(f.toolResults),
                             conversationId |-> f.conversationId]],
       conversations, TRUE)

\* lines 105-119: record the turn and return
Complete(f, response, conversations) ==
  Step([f EXCEPT !.pc = "returned",
                 !.result = [response |-> response,
                             toolsUsed |-> f.toolSelection.selected_tools,
                             confidence |-> calculateConfidence(f.toolResults),
                             conversationId |-> f.conversationId]],
       updateConversationContext(conversations, f.conversationId, Interaction(f)),
       TRUE)

\* faulty variant: the catch rethrows, and the promise rejects
CatchError_rethrows(f, message, conversations) ==
  Step([f EXCEPT !.pc = "rejected", !.invocation = NoInvocation], conversations, TRUE)

\* faulty variant: the catch records the failed turn in its conversation
CatchError_recordsTurn(f, message, conversations) ==
  Step([f EXCEPT !.pc = "returned",
                 !.invocation = NoInvocation,
                 !.result = [response |-> TurnErrorText(message),
                             toolsUsed |-> <<>>,
                             confidence |-> Frac(0, 1),
                             conversationId |-> f.conversationId,
                             error |-> message]],
       updateConversationContext(conversations, f.conversationId, Interaction(f)),
       TRUE)

\* lines 121-132: the catch of processUserRequest
CatchError(f, message, conversations) ==
  Step([f EXCEPT !.pc = "returned",
                 !.invocation = NoInvocation,
                 !.result = [response |-> TurnErrorText(message),
                             toolsUsed |-> <<>>,
                             confidence |-> Frac(0, 1),
                             conversationId |-> f.conversationId,
                             error |-> message]],
       conversations, TRUE)

\* faulty variant: the model is asked even when no tool succeeded
synthesizeResponse_consultsModel(f, conversations) ==
  Step([f EXCEPT !.pc = "awaitTemplSynth", !.calledModel = currentModel,
                 !.modelCalls = @ + 1],
       conversations, FALSE)

\* synthesizeResponse (lines 300-333) up to its model call
synthesizeResponse(f, conversations) ==
  IF Select(f.toolResults, TRUE) = <<>>
    THEN IF Select(f.toolResults, FALSE) # <<>>
           THEN Complete(f, ErrorsApology(f.toolResults), conversations)
           ELSE Complete(f, NoToolsApology, conversations)
    ELSE Step([f EXCEPT !.pc = "awaitTemplSynth", !.calledModel = currentModel,
                        !.modelCalls = @ + 1],
              conversations, FALSE)

\* lines 97-103 and synthesizeResponseWithClaude up to its model call;
\* synthPath is the branch taken: Claude's synthesis ("claude"), the templated
\* synthesizeResponse ("template"), or the latter after the former threw
\* ("claude_failed"); when the model call of the templated synthesis throws
\* too it becomes "template_failed", or "both_failed" after Claude's threw
BeginSynthesis(f, conversations) ==
  IF IsClaude(currentModel)
    THEN Step([f EXCEPT !.pc = "awaitClaudeSynth", !.calledModel = currentModel,
                        !.modelCalls = @ + 1, !.synthPath = "claude"],
              conversations, FALSE)
    ELSE synthesizeResponse([f EXCEPT !.synthPath = "template"], conversations)

RECURSIVE RunTools(_, _, _, _)

\* faulty variant: the loop does not wait for a call that reached a transport
\* and starts the next tool of the order, if there is one
RunTools_startsNextAtOnce(f, failures, connected, conversations) ==
  LET order == executionOrder(f.toolSelection).list
  IN IF f.cursor > Len(order)
       THEN BeginSynthesis([f EXCEPT !.pc = "synthesizing"], conversations)
       ELSE LET toolId == order[f.cursor]
                refusal == DispatchRefusal(toolId, connected)
                next == IF f.cursor < Len(order) THEN f.cursor + 1 ELSE f.cursor
            IN IF refusal # "none"
                 THEN RunTools([f EXCEPT !.toolResults = Append(@, Failed(toolId, refusal)),
                                         !.cursor = @ + 1],
                               failures, connected, conversations)
                 ELSE Step([f EXCEPT !.pc = "dispatching",
                                     !.cursor = next,
                                     !.invocation = BuildInvocation(f, order[next]),
                                     !.transientFailures = failures],
                           conversations, FALSE)

\* faulty variant: the loop ends at the first tool the dispatcher refuses
RunTools_stopsAtFailure(f, failures, connected, conversations) ==
  LET order == executionOrder(f.toolSelection).list
  IN IF f.cursor > Len(order)
       THEN BeginSynthesis([f EXCEPT !.pc = "synthesizing"], conversations)
       ELSE LET toolId == order[f.cursor]
                refusal == DispatchRefusal(toolId, connected)
            IN IF refusal # "none"
                 THEN BeginSynthesis(
                        [f EXCEPT !.pc = "synthesizing",
                                  !.toolResults = Append(@, Failed(toolId, refusal)),
                                  !.cursor = @ + 1],
                        conversations)
                 ELSE Step([f EXCEPT !.pc = "dispatching",
                                     !.invocation = BuildInvocation(f, toolId),
                                     !.transientFailures = failures],
                           conversations, FALSE)

\* the loop of executeTools (lines 238-281) from position f.cursor on, up to
\* the first tool whose call reaches a transport; failures is the number of
\* attempts that transport will fail before it succeeds
RunTools(f, failures, connected, conversations) ==
  LET order == executionOrder(f.toolSelection).list
  IN IF f.cursor > Len(order)
       THEN BeginSynthesis([f EXCEPT !.pc = "synthesizing"], conversations)
       ELSE LET toolId == order[f.cursor]
                refusal == DispatchRefusal(toolId, connected)
            IN IF refusal # "none"
                 THEN RunTools([f EXCEPT !.toolResults = Append(@, Failed(toolId, refusal)),
                                         !.cursor = @ + 1],
                               failures, connected, conversations)
                 ELSE Step([f EXCEPT !.pc = "dispatching",
                                     !.invocation = BuildInvocation(f, toolId),
                                     !.transientFailures = failures],
                           conversations, FALSE)

\* executeTools (lines 229-236): a non-iterable execution order throws out of
\* the for-of and out of executeTools
executeTools(f, failures, conversations) ==
  IF executionOrder(f.toolSelection).kind = "malformed"
    THEN CatchError(f, "executionOrder is not iterable", conversations)
    ELSE RunTools([f EXCEPT !.pc = "executing", !.cursor = 1, !.toolResults = <<>>],
                  failures, mcpConnected, conversations)

(***************************************************************************)
(* routes/chat.js.  The history of a conversation is the array the         *)
(* conversations map holds for its id: messages are its messages by        *)
(* sender, holders the request slots whose handler holds a reference to    *)
(* this very array (a handler whose array was deleted from the map pushes  *)
(* to an array nothing reads any more).                                    *)
(***************************************************************************)
NoHistory == [messages |-> <<>>, holders |-> {}]

\* POST /message, lines 25-40: get or create the conversation and push the
\* user message
pushUserMessage(conv, r, c) ==
  LET old == IF c \in DOMAIN conv THEN conv[c] ELSE NoHistory
  IN (c :> [messages |-> Append(old.messages, "user"),
            holders |-> old.holders \cup {r}]) @@ conv

\* POST /message, lines 50-59 and 78-86: push the reply, or the error message
pushAiMessage(conv, r, c) ==
  IF c \in DOMAIN conv /\ r \in conv[c].holders
    THEN [conv EXCEPT ![c] = [messages |-> Append(@.messages, "ai"),
                              holders |-> @.holders \ {r}]]
    ELSE conv

\* DELETE /history/:conversationId, lines 120-136
clearHistory(conv, c) ==
  IF c \in DOMAIN conv THEN [d \in DOMAIN conv \ {c} |-> conv[d]] ELSE conv

\* a step of the handler of POST /message in slot r: the step of
\* processUserRequest, with the push of the user message before its call and
\* the push of the reply after its return
Apply(r, step) ==
  /\ turn' = [turn EXCEPT ![r] = step.frame]
  /\ activeConversations' = step.conversations
  /\ now' = IF step.completed THEN now + 1 ELSE now
  /\ history' =
       LET c == step.frame.conversationId
           received == IF turn[r].pc \in {"idle", "returned"}
                         THEN pushUserMessage(history, r, c) ELSE history
       IN IF step.completed THEN pushAiMessage(received, r, c) ELSE received


(***************************************************************************)
(* Inputs.                                                                 *)
(***************************************************************************)
\* the ids a model reply names: a capability-server tool of the catalogue and
\* an id that is in no catalogue (container tools enter plans by the fallback)
PlanIds == {"extract_all_from_pdf", "web_search"}

PlanOverrides ==
  {NoParameters, "extract_all_from_pdf" :> [confidence |-> Dec(7, 1)]}

ModelPlans ==
  {[selected_tools |-> s, reasoning |-> "model", execution_order |-> o,
    tool_parameters |-> p] :
     s \in SeqsUpTo(PlanIds, MaxPlanLen),
     o \in {Absent, Malformed} \cup {List(l) : l \in SeqsUpTo(PlanIds, MaxPlanLen)},
     p \in PlanOverrides}

\* what comes back from the planning call: the call throws, its text holds no
\* JSON object, or it is a plan
PlanFailures == {[kind |-> "throws", plan |-> NoPlan], [kind |-> "unparseable", plan |-> NoPlan]}
PlanReplies == PlanFailures \cup {[kind |-> "plan", plan |-> p] : p \in ModelPlans}

\* how a transport fails: connection refused, or a timeout
TransportErrors == {"ECONNREFUSED", "ETIMEDOUT"}

\* the message of the error toolManager.executeTool throws for a failed call
ErrorMessage(toolId, code) ==
  IF ToolDescriptor(toolId).source = "mcp"
    THEN IF code = "ECONNREFUSED" THEN "MCP server is not accessible"
         ELSE "MCP tool execution timed out"
    ELSE code

\* the pipeline specification sends the scenario message; the parameter
\* specification ranges over messages
PipelineMessages == {ScenarioMessage}
PipelineFiles == {<<>>, <<"application/pdf">>, <<"application/pdf", "image/png">>}
\* the pipeline specification's tools answer with a payload of one character
PipelinePayloads == {Payload(1)}

(***************************************************************************)
(* Actions.                                                                *)
(***************************************************************************)
Init ==
  /\ isInitialized = FALSE
  /\ currentModel = "null"
  /\ activeConversations = [c \in {} |-> <<>>]
  /\ availableTools = {}
  /\ mcpClients = {}
  /\ mcpConnected = FALSE
  /\ dockerEndpoint = "null"
  /\ dockerHealthy = FALSE
  /\ mcpClient = NewClient
  /\ qwen = NewQwenClient
  /\ history = [c \in {} |-> NoHistory]
  /\ now = 0
  /\ turn = [r \in Slots |-> IdleFrame]

\* MCPBridge.initialize with ToolManager.initialize: the tools configuration
\* loads or not, the capability server comes up or not, and the container
\* answers its health check or not; initialize does not read what
\* checkDockerHealth returns
Initialize(healths) ==
  /\ ~isInitialized
  /\ \E loaded \in BOOLEAN, serverUp \in BOOLEAN, healthy \in healths :
       /\ dockerHealthy' = (loaded /\ healthy)
       /\ availableTools' = IF loaded THEN CatalogueIds ELSE {}
       /\ dockerEndpoint' = IF loaded THEN "http://localhost:8080" ELSE "null"
       /\ mcpClients' = IF loaded /\ serverUp THEN {"document_analysis"} ELSE {}
       /\ mcpConnected' = (loaded /\ serverUp)
       /\ mcpClient' = IF ~loaded THEN mcpClient
                       ELSE IF serverUp THEN ConnectedClient(mcpClient)
                       ELSE NeverReadyClient
  /\ currentModel' = "claude-3-sonnet"
  /\ isInitialized' = TRUE
  /\ UNCHANGED <<activeConversations, qwen, history, now, turn>>

\* DELETE /history/:conversationId
ClearHistory(c) ==
  /\ history' = clearHistory(history, c)
  /\ UNCHANGED <<isInitialized, currentModel, activeConversations, availableTools,
                 mcpClients, mcpConnected, dockerEndpoint, dockerHealthy, mcpClient,
                 qwen, now, turn>>

\* MCPBridge.switchModel
switchModel(modelId) ==
  /\ isInitialized
  /\ modelId # currentModel
  /\ currentModel' = modelId
  /\ UNCHANGED <<isInitialized, activeConversations, availableTools, mcpClients,
                 mcpConnected, dockerEndpoint, dockerHealthy, mcpClient, qwen, history, now, turn>>

\* processUserRequest from its call to the planning call (lines 65-88, and
\* selectToolsWithClaude / selectTools up to the model call)
Submit(r, conversationIds, messages, fileLists, maxTurns) ==
  /\ turn[r].pc \in {"idle", "returned"}
  /\ now < maxTurns
  /\ \E c \in conversationIds, m \in messages, files \in fileLists,
        failures \in 0..MaxTransientFailures :
       LET f == [IdleFrame EXCEPT !.conversationId = c, !.userMessage = m,
                                  !.uploadedFiles = files,
                                  !.contextLive = c \in DOMAIN activeConversations,
                                  !.activeTools = activeTools]
       IN Apply(r,
            IF ~isInitialized
              THEN CatchError(f, "MCP Bridge not initialized", activeConversations)
            ELSE IF currentModel = "null"
              THEN CatchError(f, "No model available", activeConversations)
            ELSE IF activeTools = {}
              THEN executeTools(
                     [f EXCEPT !.toolSelection =
                        IF IsClaude(currentModel) THEN EmptySelection
                        ELSE fallbackToolSelection(files)],
                     failures, activeConversations)
            ELSE Step([f EXCEPT !.pc = "awaitPlan", !.calledModel = currentModel,
                                !.modelCalls = 1],
                      activeConversations, FALSE))
  /\ UNCHANGED <<isInitialized, currentModel, availableTools, mcpClients,
                 mcpConnected, dockerEndpoint, dockerHealthy, mcpClient, qwen>>

\* the planning call returns: the plan is validated, or the fallback replaces
\* it, and execution starts (lines 162-172, 200-226, then 92-93)
PlanReply(r, replies) ==
  /\ turn[r].pc = "awaitPlan"
  /\ \E reply \in replies, failures \in 0..MaxTransientFailures :
       Apply(r,
         executeTools(
           [turn[r] EXCEPT !.toolSelection =
              IF reply.kind = "plan"
                THEN ValidateSelection(reply.plan, turn[r].activeTools)
                ELSE fallbackToolSelection(turn[r].uploadedFiles)],
           failures, activeConversations))
  /\ UNCHANGED <<isInitialized, currentModel, availableTools, mcpClients,
                 mcpConnected, dockerEndpoint, dockerHealthy, mcpClient, qwen>>

\* the planning call returns a text: it is parsed on the path the turn took,
\* and the turn goes on as in PlanReply
PlanTextReply(r, texts) ==
  /\ turn[r].pc = "awaitPlan"
  /\ \E text \in texts, failures \in 0..MaxTransientFailures :
       LET reply == ReplyOfText(IsClaude(turn[r].calledModel), text)
       IN Apply(r,
            executeTools(
              [turn[r] EXCEPT !.modelResponse = text,
                              !.toolSelection =
                                 IF reply.kind = "plan"
                                   THEN ValidateSelection(reply.plan, turn[r].activeTools)
                                   ELSE fallbackToolSelection(turn[r].uploadedFiles)],
              failures, activeConversations))
  /\ UNCHANGED <<isInitialized, currentModel, availableTools, mcpClients,
                 mcpConnected, dockerEndpoint, dockerHealthy, mcpClient, qwen>>

\* faulty variant: a call that times out rejects the turn
ToolReply_timeoutEndsTurn(r, payloads) ==
  /\ turn[r].pc = "dispatching"
  /\ \E code \in TransportErrors, failures \in 0..MaxTransientFailures,
        result \in payloads :
       LET f == turn[r]
           toolId == f.invocation.toolId
           ok == f.transientFailures = 0
           refused == ~ok /\ code = "ECONNREFUSED"
                      /\ ToolDescriptor(toolId).source = "mcp"
           connected == IF refused THEN FALSE ELSE mcpConnected
           pushed == IF ok THEN Succeeded(toolId, result)
                     ELSE Failed(toolId, ErrorMessage(toolId, code))
           after == [f EXCEPT !.toolResults = Append(@, pushed),
                              !.cursor = @ + 1,
                              !.invocation = NoInvocation,
                              !.transientFailures = 0]
       IN /\ mcpConnected' = connected
          /\ Apply(r,
               IF ~ok /\ code = "ETIMEDOUT"
                 THEN Step([after EXCEPT !.pc = "rejected"], activeConversations, TRUE)
                 ELSE RunTools(after, failures, connected, activeConversations))
  /\ UNCHANGED <<isInitialized, currentModel, availableTools, mcpClients, dockerEndpoint,
                 dockerHealthy, mcpClient, qwen>>

\* toolManager.executeTool returns or throws (lines 261-280): the result is
\* pushed and the loop goes on
ToolReply(r, payloads) ==
  /\ turn[r].pc = "dispatching"
  /\ \E code \in TransportErrors, failures \in 0..MaxTransientFailures,
        result \in payloads :
       LET f == turn[r]
           toolId == f.invocation.toolId
           ok == f.transientFailures = 0
           refused == ~ok /\ code = "ECONNREFUSED"
                      /\ ToolDescriptor(toolId).source = "mcp"
           connected == IF refused THEN FALSE ELSE mcpConnected
           pushed == IF ok THEN Succeeded(toolId, result)
                     ELSE Failed(toolId, ErrorMessage(toolId, code))
       IN /\ mcpConnected' = connected
          /\ Apply(r,
               RunTools([f EXCEPT !.toolResults = Append(@, pushed),
                                  !.cursor = @ + 1,
                                  !.invocation = NoInvocation,
                                  !.transientFailures = 0],
                        failures, connected, activeConversations))
  /\ UNCHANGED <<isInitialized, currentModel, availableTools, mcpClients, dockerEndpoint,
                 dockerHealthy, mcpClient, qwen>>

\* the Claude synthesis call returns or throws (lines 286-298)
ClaudeSynthReply(r) ==
  /\ turn[r].pc = "awaitClaudeSynth"
  /\ \E ok \in BOOLEAN :
       Apply(r,
         IF ok THEN Complete(turn[r], ModelText(turn[r].calledModel), activeConversations)
         ELSE synthesizeResponse([turn[r] EXCEPT !.synthPath = "claude_failed"],
                                 activeConversations))
  /\ UNCHANGED <<isInitialized, currentModel, availableTools, mcpClients,
                 mcpConnected, dockerEndpoint, dockerHealthy, mcpClient, qwen>>

\* the templated synthesis call returns or throws (lines 322-332)
TemplateSynthReply(r) ==
  /\ turn[r].pc = "awaitTemplSynth"
  /\ \E ok \in BOOLEAN :
       Apply(r,
         IF ok THEN Complete(turn[r], ModelText(turn[r].calledModel), activeConversations)
         ELSE Complete([turn[r] EXCEPT !.synthPath = IF @ = "claude_failed"
                                                       THEN "both_failed"
                                                       ELSE "template_failed"],
                       generateFallbackResponse(turn[r].toolResults),
                       activeConversations))
  /\ UNCHANGED <<isInitialized, currentModel, availableTools, mcpClients,
                 mcpConnected, dockerEndpoint, dockerHealthy, mcpClient, qwen>>

\* what a POST to the capability server does: it resolves with status 200 or
\* with another 2xx status (axios resolves any 2xx), or it throws because the
\* server answered with an error status, refused the connection, or timed out
McpOutcomes == {"200", "204", "500", "ECONNREFUSED", "ETIMEDOUT"}
Resolves(outcome) == outcome \in {"200", "204"}

\* the error a POST throws, and the one lines 274-276 throw for a resolved
\* response whose status is not 200
AxiosError(outcome) ==
  IF outcome = "500" THEN "Request failed with status code 500" ELSE outcome
StatusError(outcome) == "MCP tool execution failed with status: " \o outcome

\* the catch of MCPClient.executeTool (lines 281-297): the message of the
\* error it throws
ClassifyMcpError(error) ==
  IF error = "ECONNREFUSED" THEN "MCP server is not accessible"
  ELSE IF error = "ETIMEDOUT" THEN "MCP tool execution timed out"
  ELSE error

\* the payloads of the tool's own endpoint and of /mcp/call-tool
SpecificPayload == Payload(1)
GenericPayload == Payload(2)

\* MCPClient.executeTool ends with a result or with an error: the bridge
\* pushes the ToolResult and the loop goes on
McpCallEnds(r, f, resolved, payload, error, failures) ==
  LET toolId == f.invocation.toolId
      connected == IF ~resolved /\ error = "ECONNREFUSED" THEN FALSE ELSE mcpConnected
      pushed == IF resolved THEN Succeeded(toolId, payload)
                ELSE Failed(toolId, ClassifyMcpError(error))
  IN /\ mcpConnected' = connected
     /\ Apply(r,
          RunTools([f EXCEPT !.toolResults = Append(@, pushed),
                             !.cursor = @ + 1,
                             !.invocation = NoInvocation,
                             !.transientFailures = 0,
                             !.specificError = "none"],
                   failures, connected, activeConversations))

\* the POST to the tool's own endpoint returns or throws (lines 211-238)
McpSpecificReply(r) ==
  /\ turn[r].pc = "dispatching"
  /\ turn[r].invocation.toolId \in McpPdfTools
  /\ \E outcome \in McpOutcomes, failures \in 0..MaxTransientFailures :
       LET f == [turn[r] EXCEPT
                   !.attempts = Append(@, [endpoint |-> "specific", outcome |-> outcome])]
       IN IF Resolves(outcome)
            THEN McpCallEnds(r, f, outcome = "200", SpecificPayload,
                             StatusError(outcome), failures)
            ELSE /\ Apply(r, Step([f EXCEPT !.pc = "mcpGeneric",
                                            !.specificError = AxiosError(outcome)],
                                  activeConversations, FALSE))
                 /\ UNCHANGED mcpConnected
  /\ UNCHANGED <<isInitialized, currentModel, availableTools, mcpClients, dockerEndpoint,
                 dockerHealthy, mcpClient, qwen>>

\* the POST to /mcp/call-tool returns or throws (lines 238-259): when it
\* throws, the error of the tool's own endpoint is thrown
McpGenericReply(r) ==
  /\ turn[r].pc = "mcpGeneric"
  /\ \E outcome \in McpOutcomes, failures \in 0..MaxTransientFailures :
       LET f == [turn[r] EXCEPT
                   !.attempts = Append(@, [endpoint |-> "generic", outcome |-> outcome])]
       IN IF Resolves(outcome)
            THEN McpCallEnds(r, f, outcome = "200", GenericPayload,
                             StatusError(outcome), failures)
            ELSE McpCallEnds(r, f, FALSE, GenericPayload, f.specificError, failures)
  /\ UNCHANGED <<isInitialized, currentModel, availableTools, mcpClients, dockerEndpoint,
                 dockerHealthy, mcpClient, qwen>>

\* ToolManager.initialize loads tools.json and initializeMCPClients calls
\* MCPClient.initialize, which probes the health endpoint (lines 17-22)
BeginInitialize ==
  /\ ~isInitialized
  /\ mcpClient.pc = "new"
  /\ availableTools' = CatalogueIds
  /\ dockerEndpoint' = "http://localhost:8080"
  /\ mcpClient' = [mcpClient EXCEPT !.pc = "probing"]
  /\ UNCHANGED <<isInitialized, currentModel, activeConversations, mcpClients,
                 mcpConnected, dockerHealthy, qwen, history, now, turn>>

\* the first probe returns (lines 22-38): a healthy server is used as it is,
\* otherwise the server process is spawned, and the spawn succeeds or the
\* process emits an error, which rejects startServerProcess
FirstProbeReply ==
  /\ mcpClient.pc = "probing"
  /\ \E isRunning \in BOOLEAN, spawned \in BOOLEAN :
       IF isRunning
         THEN /\ mcpClient' = ConnectedClient(mcpClient)
              /\ mcpConnected' = TRUE
         ELSE /\ mcpClient' = IF spawned
                                THEN [mcpClient EXCEPT !.pc = "polling",
                                                       !.serverProcess = "running"]
                                ELSE [mcpClient EXCEPT !.pc = "failed",
                                                       !.serverProcess = "error"]
              /\ UNCHANGED mcpConnected
  /\ UNCHANGED <<isInitialized, currentModel, activeConversations, availableTools,
                 mcpClients, dockerEndpoint, dockerHealthy, qwen, history, now, turn>>

\* a poll of waitForServerReady returns
PollReply ==
  /\ mcpClient.pc = "polling"
  /\ \E isReady \in BOOLEAN :
       LET after == waitForServerReady(mcpClient, isReady)
       IN /\ mcpClient' = after.client
          /\ mcpConnected' = IF after.connects THEN TRUE ELSE mcpConnected
  /\ UNCHANGED <<isInitialized, currentModel, activeConversations, availableTools,
                 mcpClients, dockerEndpoint, dockerHealthy, qwen, history, now, turn>>

\* the 'exit' handler of the server process (lines 117-120)
ProcessExit ==
  /\ mcpClient.serverProcess = "running"
  /\ mcpClient' = [mcpClient EXCEPT !.serverProcess = "exited"]
  /\ mcpConnected' = FALSE
  /\ UNCHANGED <<isInitialized, currentModel, activeConversations, availableTools,
                 mcpClients, dockerEndpoint, dockerHealthy, qwen, history, now, turn>>

\* MCPClient.initialize has returned: initializeMCPClients registers the
\* client if it returned true (lines 48-55), checkDockerHealth runs, and
\* MCPBridge.initialize sets the model and isInitialized
FinishInitialize(healths) ==
  /\ ~isInitialized
  /\ mcpClient.pc \in {"ready", "failed"}
  /\ mcpClients' = IF mcpClient.pc = "ready" THEN {"document_analysis"} ELSE {}
  /\ \E healthy \in healths : dockerHealthy' = healthy
  /\ currentModel' = "claude-3-sonnet"
  /\ isInitialized' = TRUE
  /\ UNCHANGED <<activeConversations, availableTools, mcpConnected, dockerEndpoint,
                 mcpClient, qwen, history, now, turn>>

\* the bridge's variables, which the QwenClient does not touch
bridgeVars ==
  <<isInitialized, currentModel, activeConversations, availableTools, mcpClients,
    mcpConnected, dockerEndpoint, dockerHealthy, mcpClient, history, now, turn>>

QwenInitialize ==
  /\ ~qwen.isInitialized
  /\ qwen' = startInferenceServer(qwen)
  /\ UNCHANGED bridgeVars

\* the calls are made in the order of their numbers
QwenGenerate(c) ==
  /\ qwen.calls[c].state = "none"
  /\ \A d \in QwenCalls : d < c => qwen.calls[d].state # "none"
  /\ qwen' = generateResponse(qwen, c)
  /\ UNCHANGED bridgeVars

QwenWorkerReply ==
  /\ qwen.pythonProcess = "running"
  /\ qwen.stdin # <<>>
  /\ \E success \in BOOLEAN : qwen' = workerReplies(qwen, success)
  /\ UNCHANGED bridgeVars

QwenTimeout(c) ==
  /\ c \in qwen.timers
  /\ qwen' = timeoutFires(qwen, c)
  /\ UNCHANGED bridgeVars

Next ==
  \/ Initialize({TRUE})
  \/ \E m \in ModelIds : switchModel(m)
  \/ Submit("r1", {"c1"}, PipelineMessages, PipelineFiles, MaxTurns)
  \/ PlanReply("r1", PlanReplies)
  \/ ToolReply("r1", PipelinePayloads)
  \/ ClaudeSynthReply("r1")
  \/ TemplateSynthReply("r1")

Spec == Init /\ [][Next]_vars


(***************************************************************************)
(* The conversation context over many turns: no files, and a planning call *)
(* that fails, so that every turn selects no tool.  Turns are submitted    *)
(* once the bridge is initialised, and the second conversation id takes at *)
(* most CtxSideTurns of them.                                              *)
(***************************************************************************)
StoredTurns(c) ==
  IF c \in DOMAIN activeConversations THEN activeConversations[c] ELSE <<>>

CtxConversations ==
  {"c1"} \cup (IF Len(StoredTurns("c2")) < CtxSideTurns THEN {"c2"} ELSE {})

NextCtx ==
  \/ Initialize({TRUE})
  \/ \E m \in ModelIds : switchModel(m)
  \/ /\ isInitialized
     /\ Submit("r1", CtxConversations, {PlainMessage}, {<<>>}, CtxTurns)
  \/ PlanReply("r1", PlanFailures)
  \/ ClaudeSynthReply("r1")

SpecCtx == Init /\ [][NextCtx]_vars

(***************************************************************************)
(* The heuristic fallback over every list of file types: the planning call *)
(* fails, and the first turn is followed up to its first tool call.        *)
(***************************************************************************)
NextFallback ==
  \/ Initialize({TRUE})
  \/ \E m \in ModelIds : switchModel(m)
  \/ /\ turn["r1"].pc = "idle"
     /\ Submit("r1", {"c1"}, {PlainMessage}, SeqsUpTo(FileTypes, MaxFiles), MaxTurns)
  \/ PlanReply("r1", PlanFailures)

SpecFallback == Init /\ [][NextFallback]_vars

(***************************************************************************)
(* The parameters of a tool call over every short message: one PDF file,   *)
(* a plan that runs the full-extraction tool with or without an override,  *)
(* and the first turn is followed up to its first tool call.               *)
(***************************************************************************)
ParamMessages ==
  SeqsUpTo(MsgTokens, MaxMsgLen)
    \cup {<<"confidence">> \o m : m \in SeqsUpTo(MsgTokens, MaxMsgLen)}
    \cup {ScenarioMessage, SentenceMessage}

ParamReplies ==
  PlanFailures \cup
  {[kind |-> "plan",
    plan |-> [selected_tools |-> <<"extract_all_from_pdf">>, reasoning |-> "model",
              execution_order |-> Absent, tool_parameters |-> p]] :
     p \in PlanOverrides}

NextParams ==
  \/ Initialize({TRUE})
  \/ /\ turn["r1"].pc = "idle"
     /\ Submit("r1", {"c1"}, ParamMessages, {<<"application/pdf">>}, MaxTurns)
  \/ PlanReply("r1", ParamReplies)

SpecParams == Init /\ [][NextParams]_vars


(***************************************************************************)
(* The parsing of a planning reply over every short text: one PDF file,    *)
(* and the first turn is followed up to its first tool call.               *)
(***************************************************************************)
ReplyTexts == SeqsUpTo(ReplyTokens, MaxReplyLen)

NextParse ==
  \/ Initialize({TRUE})
  \/ \E m \in ModelIds : switchModel(m)
  \/ /\ turn["r1"].pc = "idle"
     /\ Submit("r1", {"c1"}, {PlainMessage}, {<<"application/pdf">>}, MaxTurns)
  \/ PlanTextReply("r1", ReplyTexts)

SpecParse == Init /\ [][NextParse]_vars

(***************************************************************************)
(* Two requests in flight on the same conversation: the first slot sends   *)
(* the plain message and the second the scenario message, with no file or  *)
(* one PDF file, and the planning call fails.  Turns are submitted once    *)
(* the bridge is initialised, so every turn completes.                     *)
(***************************************************************************)
ConcFiles == {<<>>, <<"application/pdf">>}

NextConc ==
  \/ Initialize({TRUE})
  \/ /\ isInitialized
     /\ \/ Submit("r1", {"c1"}, {PlainMessage}, ConcFiles, ConcTurns)
        \/ Submit("r2", {"c1"}, {ScenarioMessage}, ConcFiles, ConcTurns)
  \/ \E r \in Slots :
       \/ PlanReply(r, PlanFailures)
       \/ ToolReply(r, PipelinePayloads)
       \/ ClaudeSynthReply(r)
       \/ TemplateSynthReply(r)

SpecConc == Init /\ [][NextConc]_vars


(***************************************************************************)
(* Synthesis: a PDF and an image are uploaded, the planning call fails, so *)
(* the fallback plans a capability-server tool and a container tool, and   *)
(* the tools answer with payloads around the preview length.               *)
(***************************************************************************)
SynthFiles == {<<"application/pdf", "image/png">>}
SynthPayloads ==
  {Payload(n) : n \in {PreviewLength - 1, PreviewLength, PreviewLength + 1}}

NextSynth ==
  \/ Initialize({TRUE})
  \/ \E m \in ModelIds : switchModel(m)
  \/ Submit("r1", {"c1"}, {PlainMessage}, SynthFiles, MaxTurns)
  \/ PlanReply("r1", PlanFailures)
  \/ ToolReply("r1", SynthPayloads)
  \/ ClaudeSynthReply("r1")
  \/ TemplateSynthReply("r1")

SpecSynth == Init /\ [][NextSynth]_vars


(***************************************************************************)
(* Availability: the pipeline with a container that may fail its health    *)
(* check when the tool manager initialises.                                *)
(***************************************************************************)
NextAvail ==
  \/ Initialize(BOOLEAN)
  \/ \E m \in ModelIds : switchModel(m)
  \/ Submit("r1", {"c1"}, {PlainMessage}, SynthFiles, MaxTurns)
  \/ PlanReply("r1", PlanFailures)
  \/ ToolReply("r1", PipelinePayloads)
  \/ ClaudeSynthReply("r1")
  \/ TemplateSynthReply("r1")

SpecAvail == Init /\ [][NextAvail]_vars


(***************************************************************************)
(* The capability server's endpoints: a PDF is uploaded, the planning call *)
(* fails, the fallback plans extract_all_from_pdf, and each POST of        *)
(* MCPClient.executeTool is a step.                                        *)
(***************************************************************************)
NextMcp ==
  \/ Initialize({TRUE})
  \/ \E m \in ModelIds : switchModel(m)
  \/ Submit("r1", {"c1"}, {PlainMessage}, {<<"application/pdf">>}, MaxTurns)
  \/ PlanReply("r1", PlanFailures)
  \/ McpSpecificReply("r1")
  \/ McpGenericReply("r1")
  \/ ClaudeSynthReply("r1")
  \/ TemplateSynthReply("r1")

SpecMcp == Init /\ [][NextMcp]_vars


(***************************************************************************)
(* Initialisation of the capability server's client, probe by probe, and   *)
(* a turn on the bridge it leaves.                                         *)
(***************************************************************************)
NextMcpInit ==
  \/ BeginInitialize
  \/ FirstProbeReply
  \/ PollReply
  \/ ProcessExit
  \/ FinishInitialize(BOOLEAN)
  \/ Submit("r1", {"c1"}, {PlainMessage}, {<<"application/pdf">>}, MaxTurns)
  \/ PlanReply("r1", PlanFailures)
  \/ ToolReply("r1", PipelinePayloads)
  \/ ClaudeSynthReply("r1")
  \/ TemplateSynthReply("r1")

SpecMcpInit == Init /\ [][NextMcpInit]_vars


(***************************************************************************)
(* The local-process backend: calls of generateResponse, the worker's      *)
(* replies and the timeouts, in any order.                                 *)
(***************************************************************************)
NextQwen ==
  \/ QwenInitialize
  \/ \E c \in QwenCalls : QwenGenerate(c)
  \/ QwenWorkerReply
  \/ \E c \in QwenCalls : QwenTimeout(c)

SpecQwen == Init /\ [][NextQwen]_vars


(***************************************************************************)
(* Turns whose calls all come back: a PDF and an image are uploaded, the   *)
(* planning call fails or returns a plan for the PDF tool with any         *)
(* execution order, and every call in flight returns or hits its timeout,  *)
(* so that the planning call, the tool call and the two synthesis calls    *)
(* each get their reply.                                                   *)
(***************************************************************************)
LiveReplies ==
  PlanFailures \cup
  {reply \in PlanReplies :
     /\ reply.kind = "plan"
     /\ reply.plan.selected_tools = <<"extract_all_from_pdf">>
     /\ reply.plan.tool_parameters = NoParameters}

NextLive ==
  \/ Initialize({TRUE})
  \/ \E m \in ModelIds : switchModel(m)
  \/ Submit("r1", {"c1"}, {PlainMessage}, SynthFiles, MaxTurns)
  \/ PlanReply("r1", LiveReplies)
  \/ ToolReply("r1", PipelinePayloads)
  \/ ClaudeSynthReply("r1")
  \/ TemplateSynthReply("r1")

SpecLive ==
  /\ Init /\ [][NextLive]_vars
  /\ WF_vars(PlanReply("r1", LiveReplies))
  /\ WF_vars(ToolReply("r1", PipelinePayloads))
  /\ WF_vars(ClaudeSynthReply("r1"))
  /\ WF_vars(TemplateSynthReply("r1"))

(***************************************************************************)
(* Turns that fail: a turn is submitted before or after the bridge is      *)
(* initialised, on either conversation, and the planning call fails or     *)
(* returns a plan whose execution order is not a list.                     *)
(***************************************************************************)
FailedReplies ==
  PlanFailures \cup
  {reply \in PlanReplies :
     reply.kind = "plan" /\ executionOrder(reply.plan).kind = "malformed"}

NextFailed ==
  \/ Initialize({TRUE})
  \/ \E r \in Slots :
       \/ Submit(r, ConversationIds, {PlainMessage}, {<<"application/pdf">>}, FailedTurns)
       \/ PlanReply(r, FailedReplies)
       \/ ToolReply(r, PipelinePayloads)
       \/ ClaudeSynthReply(r)
       \/ TemplateSynthReply(r)

SpecFailed == Init /\ [][NextFailed]_vars

(***************************************************************************)
(* Histories that are cleared: turns on either conversation, whose         *)
(* planning call fails, and a client that clears the history of either     *)
(* conversation at any moment.                                             *)
(***************************************************************************)
NextHistory ==
  \/ Initialize({TRUE})
  \/ \E c \in ConversationIds : ClearHistory(c)
  \/ \E r \in Slots :
       \/ Submit(r, ConversationIds, {PlainMessage}, {<<"application/pdf">>}, HistoryTurns)
       \/ PlanReply(r, PlanFailures)
       \/ ToolReply(r, PipelinePayloads)
       \/ ClaudeSynthReply(r)
       \/ TemplateSynthReply(r)

SpecHistory == Init /\ [][NextHistory]_vars

(***************************************************************************)
(* Properties.                                                             *)
(***************************************************************************)
\* the turn returned through lines 114-119, not through the catch
ReturnedNormally(f) == f.pc = "returned" /\ "error" \notin DOMAIN f.result

\* the plan of the turn is resolved and its execution order can be iterated
PlanResolved(f) ==
  f.toolSelection.reasoning # "none" /\ executionOrder(f.toolSelection).kind = "list"

AllFailed(toolResults) ==
  toolResults # <<>> /\ \A i \in 1..Len(toolResults) : ~toolResults[i].success

Successes(toolResults) ==
  Cardinality({i \in 1..Len(toolResults) : toolResults[i].success})

\* C1: every tool id handed to the dispatcher (every id with a ToolResult and
\* the id of the call in flight) was among the tools that were live-available
\* when the plan of the turn was resolved
C1_DispatchedToolsWereAvailable ==
  \A r \in Slots :
    LET f == turn[r]
    IN /\ \A i \in 1..Len(f.toolResults) : f.toolResults[i].toolId \in f.activeTools
       /\ f.pc = "dispatching" => f.invocation.toolId \in f.activeTools

\* C2: processUserRequest never rejects: a call is waiting for a network reply
\* or has returned an object with a textual response and the conversationId it
\* was given, and the object carries an error field exactly when the whole
\* turn failed
C2_TurnAlwaysReturnsAnObject ==
  \A r \in Slots :
    LET f == turn[r]
    IN /\ f.pc \in {"idle", "awaitPlan", "dispatching", "awaitClaudeSynth",
                    "awaitTemplSynth", "returned"}
       /\ f.pc = "returned" =>
            /\ {"response", "conversationId"} \subseteq DOMAIN f.result
            /\ f.result.conversationId = f.conversationId
            /\ f.result.response.kind \in
                 {"turn_error", "errors_apology", "no_tools_apology", "model_text",
                  "fallback_errors", "fallback_generic", "fallback_rendering"}
            /\ f.result.response.kind = "turn_error" <=> "error" \in DOMAIN f.result
            /\ "error" \in DOMAIN f.result =>
                 f.result.response = TurnErrorText(f.result.error)

\* a turn that failed while executing a plan came back as an object with error
C2_FailedTurnReturned ==
  \E r \in Slots :
    /\ turn[r].pc = "returned"
    /\ "error" \in DOMAIN turn[r].result
    /\ turn[r].toolSelection.execution_order.kind = "malformed"
    /\ turn[r].result.conversationId = "c1"

\* C3: once executeTools has run, the results list holds exactly one
\* ToolResult per entry of the resolved execution order, in the same position
\* and with the same tool id; while it runs the list is that for the entries
\* before the call in flight; a failed tool is recorded with its error message
\* and the tools after it are still invoked
C3_OneResultPerOrderEntry ==
  \A r \in Slots :
    LET f == turn[r]
        order == executionOrder(f.toolSelection).list
    IN PlanResolved(f) =>
         /\ f.pc = "dispatching" =>
              /\ f.cursor \in 1..Len(order)
              /\ f.invocation.toolId = order[f.cursor]
              /\ Len(f.toolResults) = f.cursor - 1
         /\ f.pc # "dispatching" => Len(f.toolResults) = Len(order)
         /\ \A i \in 1..Len(f.toolResults) :
              /\ f.toolResults[i].toolId = order[i]
              /\ f.toolResults[i].success <=> f.toolResults[i].error = "none"

\* a turn returned whose first tool timed out and whose second tool succeeded
C3_FailureThenSuccess ==
  \E r \in Slots :
    /\ ReturnedNormally(turn[r])
    /\ Len(turn[r].toolResults) = 2
    /\ turn[r].toolResults[1].error = "MCP tool execution timed out"
    /\ turn[r].toolResults[2].success

\* C4: with max_retries = 2, a tool whose call fails on its first two attempts
\* and would succeed on the third gets a succeeded ToolResult
C4_RetriedUntilSuccess ==
  [][\A r \in Slots :
       ( /\ turn[r].pc = "dispatching"
         /\ turn[r].transientFailures = MaxRetries
         /\ Len(turn'[r].toolResults) >= turn[r].cursor )
       => turn'[r].toolResults[turn[r].cursor].success]_vars

\* C5: a conversation's context never holds more than 20 turns; a turn that
\* completes on it leaves in it the last (up to 20) of the turns it held
\* followed by the new one, so the oldest turn goes first; and it changes in
\* no other way
C5_ContextKeepsNewestTwenty ==
  /\ [](\A c \in DOMAIN activeConversations : Len(activeConversations[c]) <= MaxContext)
  /\ [][\A c \in ConversationIds :
          LET old == StoredTurns(c)
              new == IF c \in DOMAIN activeConversations'
                       THEN activeConversations'[c] ELSE <<>>
              completes == \E r \in Slots : /\ turn[r].pc # "returned"
                                              /\ ReturnedNormally(turn'[r])
                                              /\ turn'[r].conversationId = c
          IN (completes \/ new # old) =>
               /\ Len(new) >= 1
               /\ new[Len(new)].timestamp = now
               /\ LET pushed == Append(old, new[Len(new)])
                      n == IF Len(pushed) < MaxContext THEN Len(pushed) ELSE MaxContext
                  IN /\ Len(new) = n
                     /\ \A i \in 1..n : new[i] = pushed[Len(pushed) - n + i]]_vars

\* the first conversation took the turns 0 to 20 and holds the turns 1 to 20
C5_TwentyFirstTurnEvictedOldest ==
  /\ "c2" \notin DOMAIN activeConversations
  /\ Len(StoredTurns("c1")) = MaxContext
  /\ StoredTurns("c1")[1].timestamp = 1
  /\ StoredTurns("c1")[MaxContext].timestamp = MaxContext

\* the confidence c is the number k / n
IsRatio(c, k, n) == c.den > 0 /\ c.num * n = k * c.den

ConfidenceFromResults(f) ==
  IF Len(f.toolResults) > 0
    THEN IsRatio(f.result.confidence, Successes(f.toolResults), Len(f.toolResults))
    ELSE IsRatio(f.result.confidence, 1, 2)

\* C6: the confidence of a turn that returns without an error is
\* succeeded results / results when at least one tool was executed, and
\* exactly 0.5 when none was
C6_ConfidenceOfCompletedTurn ==
  \A r \in Slots : ReturnedNormally(turn[r]) => ConfidenceFromResults(turn[r])

\* a turn returned with one tool failed and one succeeded
C6_HalfOfTwoSucceeded ==
  \E r \in Slots :
    /\ ReturnedNormally(turn[r])
    /\ Len(turn[r].toolResults) = 2
    /\ Successes(turn[r].toolResults) = 1
    /\ turn[r].result.confidence = Frac(1, 2)

\* C6 as stated: the confidence of every returned turn, failed or not, is the
\* ratio of its results, or 0.5 without results
C6_ConfidenceOfEveryTurn ==
  \A r \in Slots : turn[r].pc = "returned" => ConfidenceFromResults(turn[r])

EmptyOrder(f) == PlanResolved(f) /\ executionOrder(f.toolSelection).list = <<>>

Precedence ==
  <<[keys |-> {"pdf"}, tool |-> "extract_all_from_pdf"],
    [keys |-> {"excel", "spreadsheet"}, tool |-> "excel_processor"],
    [keys |-> {"image"}, tool |-> "image_analyzer"],
    [keys |-> {"text", "word"}, tool |-> "text_processor"],
    [keys |-> {"video"}, tool |-> "video_processor"],
    [keys |-> {"audio"}, tool |-> "audio_processor"]>>

InClass(type, i) == \E k \in Precedence[i].keys : includes(type, k)

\* the tools of the first class each file is in
ToolsByPrecedence(uploadedFiles) ==
  {Precedence[i].tool :
     i \in {j \in 1..Len(Precedence) :
              \E n \in 1..Len(uploadedFiles) :
                /\ InClass(uploadedFiles[n], j)
                /\ \A l \in 1..(j - 1) : ~InClass(uploadedFiles[n], l)}}

\* C9: the fallback's plan holds, for each file, the tool of the first class
\* the file is in (PDF, spreadsheet, image, text or word, video, audio) and
\* nothing else, without duplicates and in the same order as its execution
\* order; a PDF and a PNG give exactly the full-extraction tool and the image
\* analyser; the fallback calls no model
C9_FallbackByPrecedence ==
  \A r \in Slots :
    LET f == turn[r]
        tools == f.toolSelection.selected_tools
    IN f.toolSelection.reasoning = FallbackReasoning =>
         /\ Range(tools) = ToolsByPrecedence(f.uploadedFiles)
         /\ Cardinality(Range(tools)) = Len(tools)
         /\ Len(tools) <= Len(f.uploadedFiles)
         /\ f.toolSelection.execution_order = List(tools)
         /\ Range(f.uploadedFiles) = {"application/pdf", "image/png"} =>
              Range(tools) = {"extract_all_from_pdf", "image_analyzer"}
         /\ f.activeTools = {} => f.modelCalls = 0
         /\ f.pc = "dispatching" => f.modelCalls <= 1

\* two PDF files fell back to the full-extraction tool once
C9_TwoPdfsOneTool ==
  \E r \in Slots :
    /\ turn[r].toolSelection.reasoning = FallbackReasoning
    /\ turn[r].uploadedFiles = <<"application/pdf", "application/pdf">>
    /\ turn[r].toolSelection.selected_tools = <<"extract_all_from_pdf">>

\* b laid over a: Object.assign's result as the claim words it
Over(a, b) == [k \in DOMAIN a \cup DOMAIN b |-> IF k \in DOMAIN b THEN b[k] ELSE a[k]]

\* the confidence value a message holds, if it holds one
MessageConfidence(userMessage) ==
  LET match == confidenceMatch(userMessage)
  IN IF match.matched /\ parseFloat(match.capture) # NaN
       THEN [confidence |-> parseFloat(match.capture)]
       ELSE NoParameters

\* C10: the parameters of a tool call are the descriptor's defaults, overridden
\* by the plan's tool_parameters for the tool, overridden by the confidence
\* value found in the user message
C10_MessageConfidenceWins ==
  \A r \in Slots :
    LET f == turn[r]
        toolId == f.invocation.toolId
        planned == IF toolId \in DOMAIN f.toolSelection.tool_parameters
                     THEN f.toolSelection.tool_parameters[toolId] ELSE NoParameters
    IN f.pc = "dispatching" =>
         f.invocation.parameters =
           Over(Over(ToolDescriptor(toolId).parameters, planned),
                MessageConfidence(f.userMessage))


\* the first balanced {...} span of a text, <<>> if it has none
FirstBalancedSpan(text) ==
  LET opens == Positions(text, "{")
  IN IF opens = {} \/ BalancedEnd(text, First(opens) + 1, 1) = 0 THEN <<>>
     ELSE SubSeq(text, First(opens), BalancedEnd(text, First(opens) + 1, 1))

\* C11: when the planning reply is not JSON as a whole and its first balanced
\* {...} span is a JSON object holding a plan, the plan of the turn is that
\* object's plan, on the structured path and on the templated path
C11_FirstBalancedObjectRecovered ==
  \A r \in Slots :
    LET f == turn[r]
        span == FirstBalancedSpan(f.modelResponse)
    IN ( /\ f.toolSelection.reasoning # "none"
         /\ ~JSONparse(f.modelResponse).ok
         /\ JSONparse(span).ok
         /\ HasPlanMembers(span) )
       => f.toolSelection = ValidateSelection(TextPlan, f.activeTools)


\* C12: a turn in flight makes every model call with one handle: a call after
\* the planning call (the synthesis call) goes to the model the planning call
\* went to, also when switchModel ran while the turn was suspended
C12_OneModelHandlePerTurn ==
  [][\A r \in Slots :
       ( /\ turn[r].pc \notin {"idle", "returned"}
         /\ turn[r].modelCalls >= 1
         /\ turn'[r].modelCalls > turn[r].modelCalls )
       => turn'[r].calledModel = turn[r].calledModel]_vars


\* C13: with two requests in flight on one conversation, a turn that
\* completes is appended to the conversation's context as one whole entry at
\* its end, at the moment it completes, and the context changes in no other
\* way; so the context holds every completed turn once, in completion order
C13_CompletedTurnsAppendedInOrder ==
  /\ [](/\ Len(StoredTurns("c1")) = (IF now < MaxContext THEN now ELSE MaxContext)
        /\ \A i \in 1..Len(StoredTurns("c1")) :
             StoredTurns("c1")[i].timestamp = now - Len(StoredTurns("c1")) + i - 1)
  /\ [][\A r \in Slots :
          (turn[r].pc # "returned" /\ ReturnedNormally(turn'[r])) =>
            LET old == StoredTurns(turn'[r].conversationId)
                new == activeConversations'[turn'[r].conversationId]
            IN /\ Len(new) = Len(old) + 1
               /\ SubSeq(new, 1, Len(old)) = old
               /\ new[Len(new)] =
                    [userMessage |-> turn'[r].userMessage,
                     toolsUsed |-> turn'[r].result.toolsUsed,
                     timestamp |-> now]]_vars

\* both requests started before the conversation had a context, the second
\* completed first, and both turns are stored
C13_BothFirstTurnsStored ==
  /\ \A r \in Slots : ReturnedNormally(turn[r]) /\ ~turn[r].contextLive
  /\ Len(StoredTurns("c1")) = 2
  /\ StoredTurns("c1")[1].userMessage = ScenarioMessage
  /\ StoredTurns("c1")[2].userMessage = PlainMessage


\* C14: the tools of a turn are invoked one at a time in execution order: the
\* call of the tool at a position starts only when every position before it
\* has its ToolResult and no later one has, and while a call is in flight the
\* results do not change
C14_ToolsInvokedOneAtATime ==
  [][\A r \in Slots :
       LET f == turn[r]
           g == turn'[r]
           order == executionOrder(g.toolSelection).list
       IN /\ (g.pc = "dispatching" /\ (f.pc # "dispatching" \/ g.cursor # f.cursor)) =>
               /\ g.cursor \in 1..Len(order)
               /\ g.invocation.toolId = order[g.cursor]
               /\ Len(g.toolResults) = g.cursor - 1
               /\ f.pc = "dispatching" =>
                    /\ g.cursor > f.cursor
                    /\ g.toolResults[f.cursor].toolId = f.invocation.toolId
          /\ (f.pc = "dispatching" /\ g.pc = "dispatching" /\ g.cursor = f.cursor) =>
               g.toolResults = f.toolResults]_vars

\* the second tool of a turn is being called and the first has its result
C14_SecondToolAfterFirstResult ==
  \E r \in Slots :
    /\ turn[r].pc = "dispatching"
    /\ turn[r].cursor = 2
    /\ Len(turn[r].toolResults) = 1
    /\ turn[r].toolResults[1].success


\* the phases of a turn are in order: no tool call or result before the plan is
\* resolved, and synthesis begun only with a result for every entry of the
\* execution order
PhasesInOrder(f) ==
  /\ f.pc \in {"idle", "awaitPlan"} => f.toolResults = <<>> /\ f.synthPath = "none"
  /\ (f.pc = "dispatching" \/ f.toolResults # <<>>) => PlanResolved(f)
  /\ f.pc = "dispatching" => f.synthPath = "none"
  /\ (f.pc \in {"awaitClaudeSynth", "awaitTemplSynth"} \/ f.synthPath # "none") =>
       /\ PlanResolved(f)
       /\ Len(f.toolResults) = Len(executionOrder(f.toolSelection).list)

\* C15: a turn that does not end through the Failed exit goes through
\* Planning, Executing, Synthesizing and Complete in that order, and is
\* appended to its conversation's context exactly once, in the step in which
\* it returns and after synthesis; a turn that ends through the Failed exit
\* is not appended, and nothing else changes a context
C15_PhasesInOrderUnlessFailed ==
  /\ [](\A r \in Slots :
          /\ PhasesInOrder(turn[r])
          /\ ReturnedNormally(turn[r]) =>
               PlanResolved(turn[r]) /\ turn[r].synthPath # "none")
  /\ [][\A r \in Slots :
          LET f == turn[r]
              g == turn'[r]
              old == StoredTurns(g.conversationId)
          IN /\ (f.pc # "returned" /\ ReturnedNormally(g)) =>
                  /\ g.synthPath # "none"
                  /\ activeConversations' =
                       updateConversationContext(activeConversations, g.conversationId,
                         [userMessage |-> g.userMessage, toolsUsed |-> g.result.toolsUsed,
                          timestamp |-> now])
                  /\ activeConversations' # activeConversations
             /\ (now' = now \/ (g.pc = "returned" /\ ~ReturnedNormally(g))) =>
                  activeConversations' = activeConversations]_vars

\* a turn planned, ran a tool, was synthesised by Claude and is in the context
C15_TurnWentThroughAllPhases ==
  \E r \in Slots :
    /\ ReturnedNormally(turn[r])
    /\ turn[r].toolSelection.reasoning = "model"
    /\ Len(turn[r].toolResults) >= 1
    /\ turn[r].synthPath = "claude"
    /\ Len(StoredTurns(turn[r].conversationId)) = 1

\* C15 as stated: every turn that returns went through Planning and
\* Synthesizing and is in its conversation's context
C15_EveryTurnThroughAllPhases ==
  \A r \in Slots :
    turn[r].pc = "returned" =>
      /\ turn[r].toolSelection.reasoning # "none"
      /\ turn[r].synthPath # "none"
      /\ \E i \in 1..Len(StoredTurns(turn[r].conversationId)) :
           StoredTurns(turn[r].conversationId)[i].userMessage = turn[r].userMessage

\* C16: a turn whose plan did not come from the model (the planning call
\* failed, its text did not parse, or no tool was available) has the tools
\* and the execution order of the heuristic fallback over its uploaded files,
\* and does not end through the Failed exit for that reason
C16_FallbackPlanWithoutModelPlan ==
  \A r \in Slots :
    LET f == turn[r]
        fallback == fallbackToolSelection(f.uploadedFiles)
    IN (f.toolSelection.reasoning \notin {"none", "model"}) =>
         /\ f.toolSelection.selected_tools = fallback.selected_tools
         /\ executionOrder(f.toolSelection) = executionOrder(fallback)
         /\ f.pc = "returned" => ReturnedNormally(f)

\* the bullets of the deterministic rendering for these results: each
\* successful tool, in order, with the first PreviewLength characters of its
\* payload
TruncatedBullets(toolResults) ==
  LET successful == Select(toolResults, TRUE)
  IN [i \in 1..Len(successful) |->
        [toolId |-> successful[i].toolId,
         preview |-> [k \in 1..(IF Len(successful[i].result) < PreviewLength
                                  THEN Len(successful[i].result) ELSE PreviewLength) |->
                        successful[i].result[k]]]]

TransportLive(id) ==
  IF ToolDescriptor(id).source = "mcp"
    THEN ToolDescriptor(id).server \in mcpClients /\ mcpConnected
    ELSE dockerHealthy

\* C18: every tool reported available has a live transport, and the tools
\* offered to a planning call are container tools only if the container
\* passed its health check
C18_AvailableOnlyWhileTransportLive ==
  /\ \A id \in activeTools : TransportLive(id)
  /\ \A r \in Slots :
       turn[r].pc = "awaitPlan" =>
         \A id \in turn[r].activeTools :
           ToolDescriptor(id).source = "docker" => dockerHealthy

RECURSIVE Pow10(_)
Pow10(n) == IF n = 0 THEN 1 ELSE 10 * Pow10(n - 1)

\* a <= b for decimals
DecLeq(a, b) == a.m * Pow10(b.s) <= b.m * Pow10(a.s)

InRange(value, range) ==
  /\ DOMAIN value = {"m", "s"}
  /\ DecLeq(range.min, value)
  /\ DecLeq(value, range.max)

\* C19: the confidence posted with a call to a capability-server tool lies
\* within the range the tool's descriptor declares, and is 0.2 when neither
\* the plan nor the user message supplied one
C19_SentConfidenceWithinRange ==
  \A r \in Slots :
    LET f == turn[r]
        toolId == f.invocation.toolId
        mcpParams == convertParametersForMCP(f.invocation)
        form == SpecificForm(mcpParams)
    IN (f.pc = "dispatching" /\ toolId \in McpPdfTools) =>
         /\ "confidence" \in DOMAIN form =>
              InRange(form.confidence, ConfidenceRange(toolId))
         /\ (toolId \notin DOMAIN f.toolSelection.tool_parameters
               /\ ~confidenceMatch(f.userMessage).matched) =>
              /\ mcpParams.confidence = Dec(2, 1)
              /\ form.confidence = Dec(2, 1)

\* the POSTs of the turn that returned HTTP 200, by position
Returned200(attempts) == {i \in 1..Len(attempts) : attempts[i].outcome = "200"}

\* the failure of a POST as executeTool reports it
FailureOf(outcome) ==
  IF Resolves(outcome) THEN StatusError(outcome) ELSE ClassifyMcpError(AxiosError(outcome))

\* C20: a call to a capability-server tool posts to the tool's own endpoint
\* first and to the generic endpoint only after that failed; its result is
\* the payload of the first POST that returned HTTP 200, and when no POST
\* did, the failure reported is that of the tool's own endpoint
C20_FirstCandidateWithStatus200Wins ==
  \A r \in Slots :
    LET f == turn[r]
        attempts == f.attempts
    IN (Len(f.toolResults) = 1 /\ attempts # <<>>) =>
         /\ attempts[1].endpoint = "specific"
         /\ Len(attempts) <= 2
         /\ Len(attempts) = 2 =>
              attempts[2].endpoint = "generic" /\ attempts[1].outcome # "200"
         /\ Returned200(attempts) # {} =>
              f.toolResults[1] =
                Succeeded(f.toolResults[1].toolId,
                          IF attempts[First(Returned200(attempts))].endpoint = "specific"
                            THEN SpecificPayload ELSE GenericPayload)
         /\ Returned200(attempts) = {} =>
              f.toolResults[1] =
                Failed(f.toolResults[1].toolId, FailureOf(attempts[1].outcome))

\* C21: the client's initialisation probes the health endpoint first; a
\* healthy first probe connects the client without a server process, an
\* unhealthy one launches the process and polls at most MaxAttempts times,
\* the first healthy poll connecting the client; when no poll is healthy the
\* initialisation fails, the client is not registered and its tools are
\* unavailable; and the connection flag is set only in a step in which a
\* probe was healthy
C21_ConnectedOnlyAfterHealthyProbe ==
  /\ [](/\ mcpConnected => mcpClient.probedHealthy
        /\ mcpClient.attempt <= MaxAttempts
        /\ mcpClient.attempt > 0 => mcpClient.serverProcess # "null"
        /\ (mcpClient.pc = "ready" /\ mcpClient.attempt = 0) =>
             mcpClient.serverProcess = "null"
        /\ mcpClient.pc = "ready" <=> mcpClient.probedHealthy
        /\ mcpClient.pc = "failed" =>
             /\ mcpClient.attempt = MaxAttempts \/ mcpClient.serverProcess = "error"
             /\ ~mcpConnected
        /\ "document_analysis" \in mcpClients => mcpClient.pc = "ready"
        /\ (isInitialized /\ mcpClient.pc = "failed") =>
             /\ mcpClients = {}
             /\ activeTools \cap McpPdfTools = {})
  /\ [][/\ (mcpConnected' /\ ~mcpConnected) =>
             (mcpClient'.probedHealthy /\ ~mcpClient.probedHealthy)
        /\ (mcpClient'.probedHealthy /\ ~mcpClient.probedHealthy) => mcpConnected'
        /\ mcpClient.pc = "probing" => mcpClient'.attempt = 0
        /\ mcpClient'.attempt \in {mcpClient.attempt, mcpClient.attempt + 1}]_vars

\* the server was launched, answered the last of the polls, and the client
\* is registered and connected
C21_ConnectedAtTheLastPoll ==
  /\ isInitialized
  /\ mcpClient.attempt = MaxAttempts
  /\ mcpClient.serverProcess = "running"
  /\ mcpConnected
  /\ "document_analysis" \in mcpClients

\* C22: every call of a capability-server tool whose client is registered
\* reaches the server, so that it succeeds when the server is reachable
\* again: no such call is refused because an earlier call found the server
\* unreachable
C22_EveryAttemptReachesTheServer ==
  \A r \in Slots :
    \A i \in 1..Len(turn[r].toolResults) :
      LET result == turn[r].toolResults[i]
      IN (result.toolId \in McpPdfTools
            /\ ToolDescriptor(result.toolId).server \in mcpClients) =>
           result.error # "MCP server is not connected"

\* call c has ended with the timeout error
TimedOut(call) == call.state = "rejected" /\ call.error = "Qwen response timeout"

\* C23: a call that is waiting has its listener attached and its timeout
\* armed; the timeout fails it with the timeout error and detaches its
\* listener, and leaves the worker process as it is; a call that was
\* answered has its listener detached and its timeout cancelled, and stays
\* as it ended
C23_TimeoutDetachesAndSparesWorker ==
  /\ [](\A c \in QwenCalls :
          /\ qwen.calls[c].state = "pending" => c \in qwen.listeners \cap qwen.timers
          /\ qwen.calls[c].state \in {"resolved", "rejected"} =>
               c \notin qwen.listeners \cup qwen.timers)
  /\ [][\A c \in QwenCalls :
          /\ (c \in qwen.timers /\ c \notin qwen'.timers
                /\ qwen'.calls[c].reply = 0) =>
               /\ TimedOut(qwen'.calls[c])
               /\ c \notin qwen'.listeners
               /\ qwen'.pythonProcess = qwen.pythonProcess
               /\ qwen'.spawns = qwen.spawns
               /\ qwen'.stdin = qwen.stdin
          /\ qwen.calls[c].state \in {"resolved", "rejected"} =>
               qwen'.calls[c] = qwen.calls[c]]_vars

\* one call timed out, a later one was answered, and the worker that was
\* started once is still running
C23_TimedOutThenAnswered ==
  \E c, d \in QwenCalls :
    /\ c < d
    /\ TimedOut(qwen.calls[c])
    /\ qwen.calls[d].state = "resolved"
    /\ qwen.pythonProcess = "running"
    /\ qwen.spawns = 1

\* C26: a call that was answered was answered with the worker's reply to
\* its own request
C26_ReplyGoesToItsOwnCall ==
  \A c \in QwenCalls : qwen.calls[c].reply \in {0, c}

NoDuplicates(list) == \A i, j \in 1..Len(list) : list[i] = list[j] => i = j

\* C24: once the plan is resolved its selected tools hold no id twice, and a
\* plan without execution_order is executed in the order of selected_tools
C24_SelectedToolsWithoutDuplicates ==
  \A r \in Slots :
    LET plan == turn[r].toolSelection
    IN plan.reasoning # "none" =>
         /\ NoDuplicates(plan.selected_tools)
         /\ plan.execution_order.kind = "absent" =>
              executionOrder(plan) = List(plan.selected_tools)

\* the result of a call that hit its timeout
ToolTimedOut(result) ==
  ~result.success /\ result.error \in {"MCP tool execution timed out", "ETIMEDOUT"}

\* C25: when every call in flight gets its reply, a turn submitted to an
\* initialised bridge returns a response; and a tool that timed out has a
\* failed ToolResult after which the remaining tools of the order are run
\* and the turn returns through its normal exit
C25_EveryTurnReturns ==
  /\ (isInitialized /\ turn["r1"].pc \notin {"idle", "returned"}) ~>
       (turn["r1"].pc = "returned" /\ "response" \in DOMAIN turn["r1"].result)
  /\ [](\A r \in Slots :
          LET f == turn[r]
          IN (\E i \in 1..Len(f.toolResults) : ToolTimedOut(f.toolResults[i])) =>
               /\ f.pc \in {"dispatching", "awaitClaudeSynth", "awaitTemplSynth",
                             "returned"}
               /\ f.pc = "returned" => ReturnedNormally(f)
               /\ f.pc # "dispatching" =>
                    Len(f.toolResults) = Len(executionOrder(f.toolSelection).list))

\* the first tool of a turn timed out, another tool ran after it, and the
\* turn returned
C25_TurnOutlivedATimeout ==
  \E r \in Slots :
    /\ ReturnedNormally(turn[r])
    /\ Len(turn[r].toolResults) = 2
    /\ ToolTimedOut(turn[r].toolResults[1])
    /\ turn[r].toolResults[2].toolId # turn[r].toolResults[1].toolId
    /\ turn[r].toolResults[2].success

\* C27: the toolsUsed a completed turn returns, and the toolsUsed of the turn
\* it stored, are the tool ids of its ToolResults in the same order, also
\* when the plan's execution_order differs from its selected_tools
C27_ToolsUsedAreTheToolsExecuted ==
  \A r \in Slots :
     LET f == turn[r]
     IN ReturnedNormally(f) => f.result.toolsUsed = Ids(f.toolResults)

\* C28: the context a turn passes to synthesis is the sequence of turns it
\* passed to planning: while the turn waits for a tool, after planning and
\* before synthesis, no step of another turn changes the context it holds
C28_ContextUnchangedUntilSynthesis ==
  [][\A r \in Slots :
       (turn[r].pc = "dispatching" /\ turn'[r] = turn[r]) =>
          ContextOf(turn[r], activeConversations') =
            ContextOf(turn[r], activeConversations)]_vars

\* C30: a turn that ends through the Failed exit returns toolsUsed = [] and
\* confidence = 0, and the step in which it returns leaves the stored context
\* of every conversation as it was
C30_FailedExitLeavesContextsAlone ==
  /\ [](\A r \in Slots :
          (turn[r].pc = "returned" /\ ~ReturnedNormally(turn[r])) =>
             /\ turn[r].result.toolsUsed = <<>>
             /\ turn[r].result.confidence = Frac(0, 1))
  /\ [][\A r \in Slots :
          (turn'[r] # turn[r] /\ turn'[r].pc = "returned"
             /\ ~ReturnedNormally(turn'[r])) =>
            activeConversations' = activeConversations]_vars

\* a turn ended through the Failed exit while its conversation had a stored
\* context, after it had reached the planning call
C30_FailedWithStoredContext ==
  \E r \in Slots :
    /\ turn[r].pc = "returned"
    /\ ~ReturnedNormally(turn[r])
    /\ turn[r].modelCalls > 0
    /\ turn[r].conversationId \in DOMAIN activeConversations
    /\ activeConversations[turn[r].conversationId] # <<>>

\* C29: clearing the history of a conversation resets the context the
\* orchestrator holds for its id: after DELETE /history/:conversationId has
\* removed the history, the context the next turn on that id reads is empty
C29_ClearingResetsContext ==
  [][\A c \in ConversationIds :
       (c \in DOMAIN history /\ c \notin DOMAIN history') =>
          StoredTurns(c)' = <<>>]_vars

====
